---- MODULE Spec2Model ----
(***************************************************************************)
(* Ensaf (src/app.py): the contract builder generate_contract_data, the    *)
(* narrative assistant (explain_clause, review_contract, call_openai), the *)
(* renderer create_pdf_document and the Flask endpoints in front of them.  *)
(*                                                                         *)
(* Conventions of the model                                                *)
(*  - A JSON value is a record: Null, Str(s), Num(n).  A mapping (dict) is *)
(*    a function whose DOMAIN is its set of keys, so an absent key is a    *)
(*    key outside the DOMAIN and Get models dict.get.                      *)
(*  - Text is a TLA+ string; its characters are read with SubSeq, so       *)
(*    strip(), float() and the formatting are computed character by        *)
(*    character.  The module is ASCII: "~" stands for one letter of the    *)
(*    Arabic block U+0600..U+06FF, and the Arabic wording of a label or    *)
(*    clause is written Ar(<english wording>).                             *)
(*  - A Python float is an exact fixed-point integer: an amount and a rate *)
(*    count hundredths (10000 SAR = 1000000, 9.75 % = 975); gosi and net   *)
(*    are exact too, [q, r] standing for q + r/10000 hundredths with       *)
(*    0 <= r < 10000.  The binary rounding of floats is not modelled.      *)
(***************************************************************************)
EXTENDS Integers, Sequences, FiniteSets, TLC

VARIABLES
    kb_file,        \* data/knowledge_base.json as the import found it
    KNOWLEDGE_BASE, \* app.py:30, loaded once at import
    contract_fields,\* the module-level list CONTRACT_FIELDS, app.py:33
    fonts,          \* reportlab's process-wide font registry: who created
                    \* the font objects registered as 'Arabic'/'ArabicBold'
    served,         \* the requests this process answered before this one
    worker,         \* an export request rendered concurrently on another thread
    today,          \* datetime.now().strftime('%Y-%m-%d') seen by the request
    request,        \* the request being handled (endpoint and its inputs)
    service,        \* what the completion service does when it is called
    pdfenv,         \* what font registration / doc.build do in this process
    response,       \* the HTTP response, NoResponse before the handler ran
    contract,       \* what generate_contract_data returned or raised
    ai_result,      \* what explain_clause / review_contract returned
    pdf_result,     \* what create_pdf_document returned
    trace           \* the handler's steps in order (validation, calls made)

vars == <<kb_file, KNOWLEDGE_BASE, contract_fields, fonts, served, worker, today, request,
          service, pdfenv, response, contract, ai_result, pdf_result, trace>>

----------------------------------------------------------------------------
(* JSON values and Python's view of them *)

Null == [t |-> "null"]
Str(s) == [t |-> "str", v |-> s]
Num(n) == [t |-> "num", v |-> n]

IsStr(x) == x.t = "str"

\* dict.get(key, default)
Get(d, k, default) == IF k \in DOMAIN d THEN d[k] ELSE default

\* Python truthiness of a JSON scalar: None, "" and 0 are falsy
Truthy(x) ==
    CASE x.t = "null" -> FALSE
      [] x.t = "str" -> x.v # ""
      [] x.t = "num" -> x.v # 0

\* x or y
Or(x, y) == IF Truthy(x) THEN x ELSE y

EmptyDict == [k \in {} |-> Null]

----------------------------------------------------------------------------
(* Characters and strings *)

Char(s, i) == SubSeq(s, i, i)

DigitChars == "0123456789"

IsDigit(c) == \E i \in 1..10 : Char(DigitChars, i) = c

DigitVal(c) == (CHOOSE i \in 1..10 : Char(DigitChars, i) = c) - 1

\* str.strip() removes leading and trailing whitespace
IsSpace(c) == c \in {" ", "\t", "\n", "\r"}

RECURSIVE LStrip(_)
LStrip(s) ==
    IF Len(s) > 0 /\ IsSpace(Char(s, 1)) THEN LStrip(SubSeq(s, 2, Len(s))) ELSE s

RECURSIVE RStrip(_)
RStrip(s) ==
    IF Len(s) > 0 /\ IsSpace(Char(s, Len(s)))
    THEN RStrip(SubSeq(s, 1, Len(s) - 1)) ELSE s

Strip(s) == RStrip(LStrip(s))

RECURSIVE Repeat(_, _)
Repeat(s, n) == IF n = 0 THEN "" ELSE s \o Repeat(s, n - 1)

RECURSIVE AllDigits(_)
AllDigits(s) == Len(s) = 0 \/ (IsDigit(Char(s, 1)) /\ AllDigits(SubSeq(s, 2, Len(s))))

RECURSIVE DigitsVal(_)
DigitsVal(s) ==
    IF Len(s) = 0 THEN 0
    ELSE 10 * DigitsVal(SubSeq(s, 1, Len(s) - 1)) + DigitVal(Char(s, Len(s)))

RECURSIVE IndexOf(_, _)
\* position of the first c in s, 0 when there is none
IndexOf(s, c) ==
    IF Len(s) = 0 THEN 0
    ELSE IF Char(s, 1) = c THEN 1
    ELSE LET r == IndexOf(SubSeq(s, 2, Len(s)), c) IN IF r = 0 THEN 0 ELSE r + 1

RECURSIVE IntToStr(_)
IntToStr(n) ==
    IF n < 10 THEN Char(DigitChars, n + 1)
    ELSE IntToStr(n \div 10) \o Char(DigitChars, (n % 10) + 1)

----------------------------------------------------------------------------
(* float(), f"{x:,.2f}" and repr(float) on the fixed-point numbers *)

Abs(n) == IF n < 0 THEN -n ELSE n

\* float(text): optional surrounding whitespace, optional sign, decimal digits
\* with at most one point and at least one digit; anything else is a
\* ValueError.  The result counts hundredths; the sampled texts carry at most
\* two fraction digits (exponents, "inf", "nan" and "_" are outside the
\* alphabet of the sampled texts).
\* the digits before and after the point
ParseDigits(ip, fp) ==
    IF AllDigits(ip) /\ AllDigits(fp) /\ Len(ip) + Len(fp) > 0
    THEN [ok |-> TRUE, v |-> 100 * DigitsVal(ip) + DigitsVal(SubSeq(fp \o "00", 1, 2))]
    ELSE [ok |-> FALSE, error |-> "ValueError"]

\* an unsigned literal whose first point is at position dot (0: no point)
ParsePointAt(body, dot) ==
    IF dot = 0 THEN ParseDigits(body, "")
    ELSE ParseDigits(SubSeq(body, 1, dot - 1), SubSeq(body, dot + 1, Len(body)))

ParseUnsigned(body) == ParsePointAt(body, IndexOf(body, "."))

Negated(p) == IF p.ok THEN [ok |-> TRUE, v |-> -p.v] ELSE p

\* a literal without surrounding whitespace
ParseSigned(t) ==
    IF Len(t) > 0 /\ Char(t, 1) = "-" THEN Negated(ParseUnsigned(SubSeq(t, 2, Len(t))))
    ELSE IF Len(t) > 0 /\ Char(t, 1) = "+" THEN ParseUnsigned(SubSeq(t, 2, Len(t)))
    ELSE ParseUnsigned(t)

ParseFloat(s) == ParseSigned(Strip(s))

\* float(x) for the value x that `form_data.get(k, d) or d` yields
PyFloat(x) ==
    CASE x.t = "num" -> [ok |-> TRUE, v |-> x.v]
      [] x.t = "str" -> ParseFloat(x.v)
      [] OTHER -> [ok |-> FALSE, error |-> "TypeError"]

Pad3(n) == IF n < 10 THEN "00" \o IntToStr(n)
           ELSE IF n < 100 THEN "0" \o IntToStr(n) ELSE IntToStr(n)

Pad2(n) == IF n < 10 THEN "0" \o IntToStr(n) ELSE IntToStr(n)

RECURSIVE Grouped(_)
\* the "," option of the format: thousands separators
Grouped(n) == IF n < 1000 THEN IntToStr(n)
              ELSE Grouped(n \div 1000) \o "," \o Pad3(n % 1000)

\* a format without separators and decimals
FormatMoney_Plain(c) == (IF c < 0 THEN "-" ELSE "") \o IntToStr(Abs(c) \div 100)

\* f"{x:,.2f}" for x counted in hundredths
FormatMoney(c) ==
    (IF c < 0 THEN "-" ELSE "") \o Grouped(Abs(c) \div 100) \o "." \o Pad2(Abs(c) % 100)

\* the exact quotient p / 10000, as [q, r] with q + r/10000 and 0 <= r < 10000
Fraction(p) == [q |-> p \div 10000, r |-> p % 10000]

\* n - x for an integer n and a fraction x
Minus(n, x) == IF x.r = 0 THEN [q |-> n - x.q, r |-> 0]
               ELSE [q |-> n - x.q - 1, r |-> 10000 - x.r]

\* the rounding of the format to two decimals, ties to even
RoundToHundredths(x) ==
    IF x.r > 5000 \/ (x.r = 5000 /\ x.q % 2 = 1) THEN x.q + 1 ELSE x.q

\* f"{x:,.2f}" for a fraction x
FormatFraction(x) == FormatMoney(RoundToHundredths(x))

\* f"{gosi_rate}" : repr of the float, the rate counted in hundredths
FloatRepr(h) ==
    LET a == Abs(h)
        f == a % 100
    IN  (IF h < 0 THEN "-" ELSE "") \o IntToStr(a \div 100) \o "." \o
        (IF f % 10 = 0 THEN IntToStr(f \div 10) ELSE Pad2(f))

----------------------------------------------------------------------------
(* The Field Schema, app.py:33-124.  Labels are the English ones; `default` *)
(* and `required` are kept where the source declares them.                 *)

Fld(id, label_en, type) == [id |-> id, label_en |-> label_en, type |-> type]
FldReq(id, label_en, type) == [id |-> id, label_en |-> label_en, type |-> type, required |-> TRUE]
FldDef(id, label_en, type, default) == [id |-> id, label_en |-> label_en, type |-> type, default |-> default]

CONTRACT_FIELDS == <<
    [key |-> "contract_info", title_en |-> "Contract Information", number |-> 1, fields |-> <<
        Fld("contract_number", "Contract No.", "text"),
        Fld("contract_type", "Contract Type", "select"),
        Fld("contract_date", "Contract Execution Date", "date"),
        Fld("start_date", "Starting Date", "date"),
        Fld("end_date", "Contract End Date", "date"),
        Fld("contract_location", "Contract Execution Location", "text") >>],
    [key |-> "first_party", title_en |-> "First Party's Information (Legal Person)", number |-> 2, fields |-> <<
        FldReq("employer_name", "Establishment Name (Employer)", "text"),
        Fld("employer_type", "Establishment Type", "text"),
        Fld("employer_hrsd_id", "HRSD Registration Number", "text"),
        Fld("employer_unified_no", "Unified National Number", "text"),
        Fld("employer_address", "National Address", "text"),
        Fld("employer_phone", "Phone Number", "text"),
        Fld("employer_email", "Email", "email"),
        Fld("employer_rep_name", "Signatory Representative", "text"),
        Fld("employer_rep_id", "Representative ID", "text"),
        Fld("employer_rep_capacity", "Capacity", "text") >>],
    [key |-> "second_party", title_en |-> "Second Party's Information", number |-> 3, fields |-> <<
        FldReq("employee_name", "Employee Name", "text"),
        FldReq("employee_nationality", "Nationality", "text"),
        Fld("employee_id_type", "ID Type", "select"),
        FldReq("employee_id_number", "ID Number", "text"),
        Fld("employee_passport", "Passport Number", "text"),
        Fld("employee_gender", "Gender", "select"),
        Fld("employee_marital_status", "Marital Status", "select"),
        Fld("employee_birth_date", "Birth Date", "date"),
        Fld("employee_address", "National Address", "text"),
        Fld("employee_phone", "Mobile Number", "text"),
        Fld("employee_email", "Email", "email") >>],
    [key |-> "job_info", title_en |-> "Profession & Work Information", number |-> 4, fields |-> <<
        FldReq("job_title", "Job Title", "text"),
        FldReq("work_location", "Work Location (City)", "text") >>],
    [key |-> "contract_duration", title_en |-> "Contract Period", number |-> 5, fields |-> <<
        FldDef("duration_months", "Duration (Months)", "number", "12"),
        Fld("auto_renewal", "Auto Renewal", "select") >>],
    [key |-> "probation", title_en |-> "Probationary Period", number |-> 6, fields |-> <<
        FldDef("probation_days", "Probation (Days)", "number", "90") >>],
    [key |-> "working_hours", title_en |-> "Work Hours & Weekly Rest", number |-> 7, fields |-> <<
        FldDef("working_days", "Working Days/Week", "number", "5"),
        FldDef("working_hours", "Working Hours/Week", "number", "48"),
        FldDef("rest_days", "Rest Days/Week", "number", "2") >>],
    [key |-> "annual_leave", title_en |-> "Annual Leaves", number |-> 8, fields |-> <<
        FldDef("vacation_days", "Annual Leave Days", "number", "21") >>],
    [key |-> "wage", title_en |-> "Wage & Benefits", number |-> 9, fields |-> <<
        FldReq("basic_salary", "Basic Wage (SAR)", "number"),
        FldDef("housing_allowance", "Housing Allowance (SAR)", "number", "0"),
        FldDef("transport_allowance", "Transport Allowance (SAR)", "number", "0"),
        FldDef("other_allowances", "Other Allowances (SAR)", "number", "0"),
        FldDef("gosi_deduction", "GOSI Deduction %", "number", "9.75") >>],
    [key |-> "bank_info", title_en |-> "Bank Account Information", number |-> 10, fields |-> <<
        Fld("bank_name", "Bank Name", "text"),
        Fld("iban", "IBAN", "text") >>] >>

\* every field id the schema declares
FieldIds ==
    UNION { { CONTRACT_FIELDS[i].fields[j].id : j \in 1..Len(CONTRACT_FIELDS[i].fields) } :
            i \in 1..Len(CONTRACT_FIELDS) }

----------------------------------------------------------------------------
(* generate_contract_data, app.py:126-291 *)

ArabicLetter == "~"

\* the Arabic wording that goes with an English wording
Ar(en) == "~~(" \o en \o ")"

\* str(x) inside an f-string; a JSON number without fraction is an int literal
PyStr(x) ==
    CASE x.t = "str" -> x.v
      [] x.t = "null" -> "None"
      [] x.t = "num" -> IF x.v % 100 = 0
                        THEN (IF x.v < 0 THEN "-" ELSE "") \o IntToStr(Abs(x.v) \div 100)
                        ELSE FloatRepr(x.v)

\* a row whose label depends on its value
Row_LabelledByValue(en, val) ==
    [ar |-> Ar(en), en |-> IF val = Str("") THEN en ELSE en \o " *", val |-> val]

Row(en, val) == [ar |-> Ar(en), en |-> en, val |-> val]
NoteRow(en, val, note_en) ==
    [ar |-> Ar(en), en |-> en, val |-> val, note_ar |-> Ar(note_en), note_en |-> note_en]
\* a total row without the flag
HighlightRow_Plain(en, val) == [ar |-> Ar(en), en |-> en, val |-> val]

HighlightRow(en, val) == [ar |-> Ar(en), en |-> en, val |-> val, highlight |-> TRUE]

\* one bilingual sub-clause per clause number (the wording is abridged to it)
MultiClauses(ids) == [i \in 1..Len(ids) |-> [ar |-> Ar(ids[i]), en |-> ids[i]]]

\* form_data.get(key, '') of a row value
Val(form_data, k) == Get(form_data, k, Str(""))

\* float(form_data.get(key, 0) or 0)
Amount(form_data, k) == PyFloat(Or(Get(form_data, k, Num(0)), Num(0)))

DefaultGosiRate == 975

\* float(form_data.get('gosi_deduction', 9.75) or 9.75)
GosiRate(form_data) ==
    PyFloat(Or(Get(form_data, "gosi_deduction", Num(DefaultGosiRate)), Num(DefaultGosiRate)))

\* " <riyal in Arabic> / SAR"
SAR == " ~~~~ / SAR"

\* the text of {form_data.get(key, default)} in a clause
Interp(form_data, k, default) == PyStr(Get(form_data, k, Str(default)))

Sections(form_data, basic, housing, transport, other, total, gosi_rate, gosi, net) == <<
    [num |-> 1, title_ar |-> Ar("Contract Information"), title_en |-> "Contract Information", rows |-> <<
        Row("Contract No.", Val(form_data, "contract_number")),
        NoteRow("Contract Type", Val(form_data, "contract_type"),
                "Fixed-term Contract / Open-ended Contract (selected from dropdown)"),
        Row("Contract Execution Date", Val(form_data, "contract_date")),
        Row("Starting Date", Val(form_data, "start_date")),
        NoteRow("Contract End Date", Val(form_data, "end_date"), "(Fixed-term Contract)"),
        Row("Contract Execution Location", Val(form_data, "contract_location")) >>],
    [num |-> 2, title_ar |-> Ar("First Party's Information (Legal Person)"),
     title_en |-> "First Party's Information (Legal Person)", rows |-> <<
        Row("Establishment Name (Employer)", Val(form_data, "employer_name")),
        Row("Establishment Type", Val(form_data, "employer_type")),
        Row("HRSD Registration Number", Val(form_data, "employer_hrsd_id")),
        Row("Unified National Number", Val(form_data, "employer_unified_no")),
        Row("National Address", Val(form_data, "employer_address")),
        Row("Phone Number", Val(form_data, "employer_phone")),
        Row("Email", Val(form_data, "employer_email")),
        Row("Signatory Representative", Val(form_data, "employer_rep_name")),
        Row("Representative ID", Val(form_data, "employer_rep_id")),
        Row("Capacity", Val(form_data, "employer_rep_capacity")) >>,
     footer_ar |-> Ar("Hereinafter referred to as the (First Party)"),
     footer_en |-> "Hereinafter referred to as the (First Party)"],
    [num |-> 3, title_ar |-> Ar("Second Party's Information"), title_en |-> "Second Party's Information", rows |-> <<
        Row("Employee Name", Val(form_data, "employee_name")),
        Row("Nationality", Val(form_data, "employee_nationality")),
        Row("ID Type", Val(form_data, "employee_id_type")),
        Row("ID Number", Val(form_data, "employee_id_number")),
        NoteRow("Passport Number", Val(form_data, "employee_passport"), "If non-Saudi"),
        Row("Gender", Val(form_data, "employee_gender")),
        Row("Marital Status", Val(form_data, "employee_marital_status")),
        Row("Birth Date", Val(form_data, "employee_birth_date")),
        Row("National Address", Val(form_data, "employee_address")),
        Row("Mobile", Val(form_data, "employee_phone")),
        Row("Email", Val(form_data, "employee_email")) >>,
     footer_ar |-> Ar("Hereinafter referred to as the (Second Party)"),
     footer_en |-> "Hereinafter referred to as the (Second Party)"],
    [num |-> 4, title_ar |-> Ar("Profession & Work's Location"), title_en |-> "Profession & Work's Location", rows |-> <<
        Row("Job Title", Val(form_data, "job_title")),
        Row("Work Domain", Str("~~~~ ~~~~~~~ / Inside KSA")),
        Row("Work Location (City)", Val(form_data, "work_location")),
        Row("Work Type", Str("~~~~ / Original Contract")) >>],
    [num |-> 5, title_ar |-> Ar("Contract Period"), title_en |-> "Contract Period", clause |-> TRUE,
     text_ar |-> Ar("5.1 valid for (") \o Interp(form_data, "duration_months", "12") \o Ar(") months"),
     text_en |-> "5.1 This contract is valid for (" \o Interp(form_data, "duration_months", "12")
                 \o ") months starting from the commencement date in Clause (1)."],
    [num |-> 6, title_ar |-> Ar("Probationary Period"), title_en |-> "Probationary Period", clause |-> TRUE,
     text_ar |-> Ar("6.1 probationary period of (") \o Interp(form_data, "probation_days", "90") \o Ar(") days"),
     text_en |-> "6.1 The Second Party is subject to a probationary period of ("
                 \o Interp(form_data, "probation_days", "90") \o ") days."],
    [num |-> 7, title_ar |-> Ar("Work Hours & Weekly Rest"), title_en |-> "Work Hours & Weekly Rest", clause |-> TRUE,
     text_ar |-> Ar("Working days: (") \o Interp(form_data, "working_days", "5") \o Ar(") days/week, (")
                 \o Interp(form_data, "working_hours", "48") \o Ar(") hours/week, with (")
                 \o Interp(form_data, "rest_days", "2") \o Ar(") rest days."),
     text_en |-> "Working days: (" \o Interp(form_data, "working_days", "5") \o ") days/week, ("
                 \o Interp(form_data, "working_hours", "48") \o ") hours/week, with ("
                 \o Interp(form_data, "rest_days", "2") \o ") rest days."],
    [num |-> 8, title_ar |-> Ar("Annual Leaves"), title_en |-> "Annual Leaves", clause |-> TRUE,
     text_ar |-> Ar("8.1 entitled to (") \o Interp(form_data, "vacation_days", "21") \o Ar(") days paid annual leave."),
     text_en |-> "8.1 The Second Party is entitled to (" \o Interp(form_data, "vacation_days", "21")
                 \o ") days paid annual leave."],
    [num |-> 9, title_ar |-> Ar("Wage & Benefits"), title_en |-> "Wage & Benefits", rows |-> <<
        Row("Basic Wage", Str(FormatMoney(basic) \o SAR)),
        Row("Housing Allowance", Str(FormatMoney(housing) \o SAR)),
        Row("Transport Allowance", Str(FormatMoney(transport) \o SAR)),
        Row("Other Allowances", Str(FormatMoney(other) \o SAR)),
        HighlightRow("Total Wage", Str(FormatMoney(total) \o SAR)),
        Row("GOSI Deduction (" \o FloatRepr(gosi_rate) \o "%)", Str("-" \o FormatFraction(gosi) \o SAR)),
        HighlightRow("Net Wage", Str(FormatFraction(net) \o SAR)) >>],
    [num |-> 10, title_ar |-> Ar("Bank Account Information"), title_en |-> "Bank Account Information", rows |-> <<
        Row("Bank Name", Val(form_data, "bank_name")),
        Row("IBAN", Val(form_data, "iban")) >>],
    [num |-> 11, title_ar |-> Ar("First Party's Obligations"), title_en |-> "First Party's Obligations", clause |-> TRUE,
     multi_clauses |-> MultiClauses(<<"11.1", "11.2", "11.3", "11.4", "11.4.1", "11.4.2", "11.5", "11.6",
                                      "11.6.1", "11.7", "11.8", "11.9", "11.10", "11.11">>)],
    [num |-> 12, title_ar |-> Ar("Second Party's Obligations"), title_en |-> "Second Party's Obligations", clause |-> TRUE,
     multi_clauses |-> MultiClauses(<<"12.1", "12.2", "12.3", "12.4", "12.5">>)],
    [num |-> 13, title_ar |-> Ar("Applicable Law and Settlement of Disputes"),
     title_en |-> "Applicable Law and Settlement of Disputes", clause |-> TRUE,
     multi_clauses |-> MultiClauses(<<"13.1", "13.2", "13.3", "13.3.1", "13.4">>)],
    [num |-> 14, title_ar |-> Ar("General Provisions"), title_en |-> "General Provisions", clause |-> TRUE,
     multi_clauses |-> MultiClauses(<<"14.1", "14.2", "14.3", "14.4", "14.5", "14.6", "14.7", "14.8",
                                      "14.9", "14.10">>)],
    [num |-> 15, title_ar |-> Ar("Additional Terms (Optional)"), title_en |-> "Additional Terms (Optional)", clause |-> TRUE,
     multi_clauses |-> MultiClauses(<<"15">>)],
    [num |-> 16, title_ar |-> Ar("Appendix"), title_en |-> "Appendix", clause |-> TRUE,
     multi_clauses |-> <<>>] >>

\* a total that forgets the other allowances
Total_WithoutOther(basic, housing, transport, other) == basic + housing + transport

\* total = basic + housing + transport + other
Total(basic, housing, transport, other) == basic + housing + transport + other

\* gosi = total * (gosi_rate / 100), in hundredths: total * rate / 10000
Gosi(total, gosi_rate) == Fraction(total * gosi_rate)

\* net = total - gosi
Net(total, gosi) == Minus(total, gosi)

\* the calculations of a contract, app.py:128-136 and 282-291
Calculations(basic, housing, transport, other, total, gosi_rate, gosi) ==
    [basic |-> basic, housing |-> housing, transport |-> transport, other |-> other,
     total |-> total, gosi_rate |-> gosi_rate, gosi |-> gosi, net |-> Net(total, gosi)]

CalculateFromTotal(basic, housing, transport, other, total, gosi_rate) ==
    Calculations(basic, housing, transport, other, total, gosi_rate, Gosi(total, gosi_rate))

Calculate(basic, housing, transport, other, gosi_rate) ==
    CalculateFromTotal(basic, housing, transport, other,
                       Total(basic, housing, transport, other), gosi_rate)

\* the returned dict, app.py:138-291
ContractData(form_data, now, c) ==
    [title_ar |-> Ar("Unified Employment Contract"),
     title_en |-> "Unified Employment Contract",
     date |-> Get(form_data, "contract_date", Str(now)),
     sections |-> Sections(form_data, c.basic, c.housing, c.transport, c.other,
                           c.total, c.gosi_rate, c.gosi, c.net),
     calculations |-> c]

\* the body of generate_contract_data once the five float() calls have been
\* evaluated: the first failing one raises
AfterFloats(form_data, now, b, h, t, o, r) ==
    IF ~(b.ok /\ h.ok /\ t.ok /\ o.ok /\ r.ok)
    THEN [kind |-> "raise", error |-> "ValueError"]
    ELSE [kind |-> "doc",
          doc |-> ContractData(form_data, now, Calculate(b.v, h.v, t.v, o.v, r.v))]

\* what a call returns: [kind |-> "doc", doc |-> ...], or the exception it raises
generate_contract_data(form_data, now) ==
    AfterFloats(form_data, now,
                Amount(form_data, "basic_salary"), Amount(form_data, "housing_allowance"),
                Amount(form_data, "transport_allowance"), Amount(form_data, "other_allowances"),
                GosiRate(form_data))

----------------------------------------------------------------------------
(* The narrative assistant, app.py:293-404 *)

Min(a, b) == IF a < b THEN a ELSE b

\* a slice that keeps everything
Take_Whole(s, n) == s

\* s[:n]
Take(s, n) == SubSeq(s, 1, Min(n, Len(s)))

RECURSIVE Dumps(_)
\* json.dumps of a list of entries (each entry already a text)
Dumps(entries) ==
    IF Len(entries) = 0 THEN ""
    ELSE entries[1] \o (IF Len(entries) > 1 THEN "," ELSE "") \o Dumps(Tail(entries))

NoKnowledgeBase == [t |-> "null"]

\* load_knowledge_base, app.py:22-28: json.load of the file; whatever goes
\* wrong (file missing, unreadable, not JSON) is caught and None returned
load_knowledge_base(file) == IF file.state = "ok" THEN file.json ELSE NoKnowledgeBase

\* a test that takes None for a knowledge base
HasKnowledgeBase_Always(kb) == TRUE

\* `if KNOWLEDGE_BASE:` a loaded mapping with at least one key
HasKnowledgeBase(kb) == kb # NoKnowledgeBase /\ DOMAIN kb # {}

ExplainKbEntries == 5
ExplainKbChars == 3000
ExplainMaxTokens == 1000
ReviewMaxTokens == 3000
ReviewTextChars == 8000
ReviewTemplateSections == 10
ReviewTemplateChars == 4000
ReviewArticleChars == 3000
ReviewRegulations == 20
ReviewRegulationChars == 2000

\* 'Arabic' if language == 'arabic' else 'English'
\* a language choice that ignores the request
LangName_AlwaysArabic(language) == "Arabic"

LangName(language) == IF language = Str("arabic") THEN "Arabic" ELSE "English"

\* a call_openai that swallows the failure into an empty success
call_openai_Swallow(prompt, system_message, max_tokens, svc) ==
    IF svc.outcome = "ok"
    THEN [success |-> TRUE, content |-> svc.content]
    ELSE [success |-> TRUE, content |-> ""]

\* call_openai: one create() call; any Exception becomes a failed result
call_openai(prompt, system_message, max_tokens, svc) ==
    IF svc.outcome = "ok"
    THEN [success |-> TRUE, content |-> svc.content]
    ELSE [success |-> FALSE, error |-> svc.message]

\* the event a call to the completion service leaves in the handler's trace
OpenAICall(prompt, system_message, max_tokens) ==
    [step |-> "openai", prompt |-> prompt, system_message |-> system_message,
     max_tokens |-> max_tokens]

\* a call_openai that tries again after a failure
OpenAICalls_Retry(prompt, system_message, max_tokens, svc) ==
    IF svc.outcome = "ok"
    THEN << OpenAICall(prompt, system_message, max_tokens) >>
    ELSE << OpenAICall(prompt, system_message, max_tokens),
            OpenAICall(prompt, system_message, max_tokens) >>

\* the create() calls one call_openai makes: a single attempt, whatever the outcome
OpenAICalls(prompt, system_message, max_tokens, svc) ==
    << OpenAICall(prompt, system_message, max_tokens) >>

ExplainKbContext(kb) ==
    IF HasKnowledgeBase(kb)
    THEN "Knowledge Base Reference:" \o
         Take(Dumps(Take(Get(kb, "sections", <<>>), ExplainKbEntries)), ExplainKbChars)
    ELSE ""

ExplainSystemMessage(language, kb) ==
    [lang_name |-> LangName(language), kb_context |-> ExplainKbContext(kb)]

ExplainPrompt(clause_text, language) ==
    [text |-> clause_text, lang_name |-> LangName(language)]

explain_clause(clause_text, language, kb, svc) ==
    call_openai(ExplainPrompt(clause_text, language), ExplainSystemMessage(language, kb),
                ExplainMaxTokens, svc)

ReviewKbSections(kb) ==
    IF ~HasKnowledgeBase(kb) THEN ""
    ELSE LET sections == Get(Get(kb, "contract_template", EmptyDict), "sections", <<>>)
             key_articles == Get(kb, "key_labor_law_articles", <<>>)
             exec_regs == Get(kb, "executive_regulations", <<>>)
         IN  (IF Len(sections) > 0
              THEN Take(Dumps(Take(sections, ReviewTemplateSections)), ReviewTemplateChars)
              ELSE "")
             \o (IF Len(key_articles) > 0
                 THEN "Key Labor Law Articles:" \o Take(Dumps(key_articles), ReviewArticleChars)
                 ELSE "")
             \o (IF Len(exec_regs) > 0
                 THEN "Executive Regulations (sample):" \o
                      Take(Dumps(Take(exec_regs, ReviewRegulations)), ReviewRegulationChars)
                 ELSE "")

ReviewSystemMessage(language, kb) ==
    [lang_name |-> LangName(language), kb_sections |-> ReviewKbSections(kb)]

\* a prompt that embeds the whole text
ReviewPrompt_Whole(contract_text, language) ==
    [text |-> contract_text, lang_name |-> LangName(language)]

ReviewPrompt(contract_text, language) ==
    [text |-> Take(contract_text, ReviewTextChars), lang_name |-> LangName(language)]

review_contract(contract_text, language, kb, svc) ==
    call_openai(ReviewPrompt(contract_text, language), ReviewSystemMessage(language, kb),
                ReviewMaxTokens, svc)

\* extract_text_from_pdf, app.py:318-330: the pages' text, stripped, or the error
extract_text_from_pdf(file) ==
    IF file.corrupt
    THEN [success |-> FALSE, error |-> "cannot open document"]
    ELSE [success |-> TRUE, text |-> Strip(file.text \o "\n")]

----------------------------------------------------------------------------
(* The renderer, app.py:406-608.  The story is the list of flowables that  *)
(* doc.build lays out; a block records what the flowable was built from.   *)

RECURSIVE HasArabic(_)
\* any('؀' <= c <= 'ۿ' for c in text)
HasArabic(s) ==
    Len(s) > 0 /\ (Char(s, 1) = ArabicLetter \/ HasArabic(SubSeq(s, 2, Len(s))))

RECURSIVE Reshaped(_)
\* arabic_reshaper.reshape: each Arabic letter becomes a presentation form "^"
Reshaped(s) ==
    IF Len(s) = 0 THEN ""
    ELSE (IF Char(s, 1) = ArabicLetter THEN "^" ELSE Char(s, 1)) \o Reshaped(SubSeq(s, 2, Len(s)))

RECURSIVE Reversed(_)
Reversed(s) == IF Len(s) = 0 THEN "" ELSE Reversed(SubSeq(s, 2, Len(s))) \o Char(s, 1)

\* bidi get_display: a text holding right-to-left letters is put in visual order
get_display(s) == IF \E i \in 1..Len(s) : Char(s, i) = "^" THEN Reversed(s) ELSE s

reshape_arabic(text) == IF text = "" THEN "" ELSE get_display(Reshaped(text))

\* a mapping (dict), as opposed to a JSON scalar
IsDict(x) == "t" \notin DOMAIN x

\* a test that takes every value for a document
Falsy_Never(x) == FALSE

\* `not x` for a request value
Falsy(x) == IF IsDict(x) THEN DOMAIN x = {} ELSE ~Truthy(x)

RECURSIVE Flatten(_)
Flatten(ss) == IF Len(ss) = 0 THEN <<>> ELSE ss[1] \o Flatten(Tail(ss))

HighlightColor == "#e8f5e9"

\* a row whose value is never reshaped
RowBlocks_NeverReshape(row) ==
    << [kind |-> "row", en |-> Get(row, "en", ""), val |-> PyStr(Get(row, "val", Str(""))),
        ar |-> reshape_arabic(Get(row, "ar", "")),
        background |-> IF Get(row, "highlight", FALSE) THEN HighlightColor ELSE "white"] >>

RowBlocks(row) ==
    LET val_text == PyStr(Get(row, "val", Str("")))
        shown == IF HasArabic(val_text) THEN reshape_arabic(val_text) ELSE val_text
        noted == Get(row, "note_ar", "") # "" \/ Get(row, "note_en", "") # ""
    IN  << [kind |-> "row", en |-> Get(row, "en", ""), val |-> shown,
            ar |-> reshape_arabic(Get(row, "ar", "")),
            background |-> IF Get(row, "highlight", FALSE) THEN HighlightColor ELSE "white"] >>
        \o (IF noted
            THEN << [kind |-> "note", text |-> Get(row, "note_en", "") \o " | "
                                              \o reshape_arabic(Get(row, "note_ar", ""))] >>
            ELSE <<>>)

SectionBlocks(section) ==
    LET multi == Get(section, "multi_clauses", <<>>)
        rows == Get(section, "rows", <<>>)
    IN  << [kind |-> "header", num |-> section.num, en |-> section.title_en,
            ar |-> reshape_arabic(section.title_ar)] >>
        \o (IF Len(multi) > 0
            THEN [i \in 1..Len(multi) |->
                    [kind |-> "subclause", en |-> Get(multi[i], "en", ""),
                     ar |-> reshape_arabic(Get(multi[i], "ar", ""))]]
            ELSE IF Get(section, "clause", FALSE)
            THEN << [kind |-> "clause", en |-> Get(section, "text_en", ""),
                     ar |-> reshape_arabic(Get(section, "text_ar", ""))] >>
            ELSE <<>>)
        \o (IF Len(rows) > 0
            THEN Flatten([i \in 1..Len(rows) |-> RowBlocks(rows[i])])
                 \o (IF Get(section, "footer_ar", "") # ""
                     THEN << [kind |-> "footer", en |-> Get(section, "footer_en", ""),
                              ar |-> reshape_arabic(Get(section, "footer_ar", ""))] >>
                     ELSE <<>>)
            ELSE <<>>)
        \o << [kind |-> "spacer"] >>

\* a story that opens with the disclaimer
Story_DisclaimerFirst(contract_data) ==
    << [kind |-> "disclaimer",
        en |-> "Disclaimer: This is a template for reference only, not legal advice.",
        ar |-> reshape_arabic(Ar("Disclaimer"))],
       [kind |-> "title", ar |-> reshape_arabic(Get(contract_data, "title_ar",
                                                  Ar("Unified Employment Contract"))),
        en |-> "Unified Employment Contract"] >>
    \o Flatten([i \in 1..Len(Get(contract_data, "sections", <<>>)) |->
                    SectionBlocks(Get(contract_data, "sections", <<>>)[i])])

Story(contract_data) ==
    LET sections == Get(contract_data, "sections", <<>>)
    IN  << [kind |-> "title", ar |-> reshape_arabic(Get(contract_data, "title_ar",
                                                      Ar("Unified Employment Contract"))),
            en |-> "Unified Employment Contract"] >>
        \o Flatten([i \in 1..Len(sections) |-> SectionBlocks(sections[i])])
        \o << [kind |-> "spacer"],
               [kind |-> "disclaimer",
               en |-> "Disclaimer: This is a template for reference only, not legal advice.",
               ar |-> reshape_arabic(Ar("Disclaimer"))] >>

\* the exception the body of the try block raises, "" when it raises none
RenderException(contract_data, env) ==
    IF ~env.font THEN "TTFError"
    ELSE IF ~IsDict(contract_data) THEN "AttributeError"
    ELSE LET sections == Get(contract_data, "sections", <<>>)
         IN  IF \E i \in 1..Len(sections) :
                    ~({"num", "title_en", "title_ar"} \subseteq DOMAIN sections[i])
             THEN "KeyError"
             ELSE IF ~env.build THEN "LayoutError" ELSE ""

PdfMagic == "%PDF-"

NoFonts == "none"

\* pdfmetrics.registerFont(TTFont(...)), app.py:450-451: the font objects
\* this call created replace whatever the process-wide registry held; when
\* the font file cannot be read TTFont raises before anything is registered
RegisterFonts(registry, env, owner) == IF env.font THEN owner ELSE registry

\* an except clause that lets the exception through
Except_Reraise(exc) == [raised |-> exc]

\* `except Exception as e:` around the whole body (app.py:606-608): what the
\* function does with the exception `exc` raised inside the try block
Except(exc) == [success |-> FALSE, error |-> exc \o "\nTraceback"]

\* create_pdf_document returns a result; [raised |-> e] stands for an
\* exception that leaves the function
create_pdf_document(contract_data, env) ==
    LET exc == RenderException(contract_data, env)
    IN  IF exc = ""
        THEN [success |-> TRUE, file |-> [magic |-> PdfMagic, story |-> Story(contract_data)]]
        ELSE Except(exc)

----------------------------------------------------------------------------
(* The endpoints, app.py:619-701 *)

\* a callee that fills the defaults into the mapping it is given
ArgumentAfter_Defaulted(x) ==
    IF IsDict(x) THEN x @@ ("gosi_deduction" :> Num(975)) ELSE x

\* the mapping a caller passed to generate_contract_data or to
\* create_pdf_document, as the call leaves it: the functions read it with
\* .get() and indexing only and assign to locals and to the story only
ArgumentAfter(x) == x

NoResponse == [status |-> 0]
NotCalled == [kind |-> "none"]

\* jsonify(body), status
Json(status, body) == [status |-> status, body |-> body]

\* an exception that leaves the view function: Flask's own 500 page, no JSON body
Crash(error) == [status |-> 500, crashed |-> TRUE, error |-> error]

ExplainMinChars == 10
ReviewMinChars == 50

\* `not text or len(text.strip()) < n` of a truthy value that is no str (a
\* JSON number): it has no strip(), the AttributeError leaves the view
NotText(text) == Truthy(text) /\ ~IsStr(text)

\* a length check that forgets to strip
TooShort_Unstripped(text, n) == ~Truthy(text) \/ Len(text.v) < n

\* `not text or len(text.strip()) < n`
TooShort(text, n) == ~Truthy(text) \/ Len(Strip(text.v)) < n

LowerOf(c) ==
    LET up == "ABCDEFGHIJKLMNOPQRSTUVWXYZ"
        low == "abcdefghijklmnopqrstuvwxyz"
    IN  IF \E i \in 1..26 : Char(up, i) = c
        THEN Char(low, CHOOSE i \in 1..26 : Char(up, i) = c)
        ELSE c

RECURSIVE Lower(_)
Lower(s) == IF Len(s) = 0 THEN "" ELSE LowerOf(Char(s, 1)) \o Lower(SubSeq(s, 2, Len(s)))

EndsWith(s, suffix) ==
    Len(s) >= Len(suffix) /\ SubSeq(s, Len(s) - Len(suffix) + 1, Len(s)) = suffix

\* a schema endpoint that drops every section but the first
get_contract_fields_FirstOnly(fields) ==
    Json(200, [success |-> TRUE, fields |-> SubSeq(fields, 1, 1)])

\* get_contract_fields, app.py:619-621
get_contract_fields(fields) == Json(200, [success |-> TRUE, fields |-> fields])

\* GET /api/contract-fields
GetContractFields ==
    /\ request.endpoint = "fields"
    /\ response = NoResponse
    /\ response' = get_contract_fields(contract_fields)
    /\ trace' = trace \o << [step |-> "get_contract_fields"] >>
    /\ UNCHANGED <<kb_file, KNOWLEDGE_BASE, contract_fields, fonts, served, worker, today, request,
                   service, pdfenv, contract, ai_result, pdf_result>>

\* POST /api/generate-contract.  contract' is what generate_contract_data
\* returned or raised
GenerateContractApi ==
    /\ request.endpoint = "generate"
    /\ response = NoResponse
    /\ contract' = generate_contract_data(Get(request.data, "form_data", EmptyDict), today)
    /\ trace' = trace \o << [step |-> "generate_contract_data",
                              form_data |-> Get(request.data, "form_data", EmptyDict),
                              form_data_after |->
                                  ArgumentAfter(Get(request.data, "form_data", EmptyDict))] >>
    /\ response' = IF contract'.kind = "raise"
                   THEN Crash(contract'.error)
                   ELSE Json(200, [success |-> TRUE, contract |-> contract'.doc,
                                   generated_at |-> today])
    /\ UNCHANGED <<kb_file, KNOWLEDGE_BASE, contract_fields, fonts, served, worker, today, request,
                   service, pdfenv, ai_result, pdf_result>>

\* POST /api/explain-clause
ExplainClauseApi ==
    /\ request.endpoint = "explain"
    /\ response = NoResponse
    /\ LET clause_text == Get(request.data, "clause_text", Str(""))
           language == Get(request.data, "language", Str("arabic"))
           result == explain_clause(clause_text.v, language, KNOWLEDGE_BASE, service)
       IN  IF NotText(clause_text)
           THEN /\ response' = Crash("AttributeError")
                /\ UNCHANGED <<ai_result, trace>>
           ELSE IF TooShort(clause_text, ExplainMinChars)
           THEN /\ response' = Json(400, [success |-> FALSE, error |-> "clause text required"])
                /\ UNCHANGED <<ai_result, trace>>
           ELSE /\ ai_result' = result
                /\ trace' = trace \o OpenAICalls(ExplainPrompt(clause_text.v, language),
                                                 ExplainSystemMessage(language, KNOWLEDGE_BASE),
                                                 ExplainMaxTokens, service)
                /\ response' = IF result.success
                               THEN Json(200, [success |-> TRUE, explanation |-> result.content])
                               ELSE Json(500, [success |-> FALSE, error |-> result.error])
    /\ UNCHANGED <<kb_file, KNOWLEDGE_BASE, contract_fields, fonts, served, worker, today, request,
                   service, pdfenv, contract, pdf_result>>

\* the client's contract_data of an export request
Given == Get(request.data, "contract_data", EmptyDict)

\* the answer of export_pdf to the result of create_pdf_document
ExportResponse(result) ==
    IF "raised" \in DOMAIN result THEN Crash(result.raised)
    ELSE IF result.success
    THEN [status |-> 200, file |-> result.file, mimetype |-> "application/pdf"]
    ELSE Json(500, [success |-> FALSE, error |-> result.error])

\* POST /api/export-pdf.  `if not contract_data:` builds the document from
\* form_data (contract' is what generate_contract_data returned or raised),
\* then the document is rendered (pdf_result')
ExportPdf ==
    /\ request.endpoint = "export"
    /\ response = NoResponse
    /\ IF Falsy(Given)
       THEN /\ contract' = generate_contract_data(Get(request.data, "form_data", EmptyDict), today)
            /\ IF contract'.kind = "raise"
               THEN /\ trace' = trace \o << [step |-> "generate_contract_data",
                                             form_data |-> Get(request.data, "form_data", EmptyDict),
                                             form_data_after |-> ArgumentAfter(
                                                 Get(request.data, "form_data", EmptyDict))] >>
                    /\ response' = Crash(contract'.error)
                    /\ UNCHANGED <<pdf_result, fonts>>
               ELSE /\ trace' = trace \o << [step |-> "generate_contract_data",
                                             form_data |-> Get(request.data, "form_data", EmptyDict),
                                             form_data_after |-> ArgumentAfter(
                                                 Get(request.data, "form_data", EmptyDict))],
                                            [step |-> "create_pdf_document",
                                             contract_data |-> contract'.doc,
                                             contract_data_after |->
                                                 ArgumentAfter(contract'.doc)] >>
                    /\ pdf_result' = create_pdf_document(contract'.doc, pdfenv)
                    /\ fonts' = RegisterFonts(fonts, pdfenv, "request")
                    /\ response' = ExportResponse(pdf_result')
       ELSE /\ trace' = trace \o << [step |-> "create_pdf_document", contract_data |-> Given,
                                    contract_data_after |-> ArgumentAfter(Given)] >>
            /\ pdf_result' = create_pdf_document(Given, pdfenv)
            /\ fonts' = RegisterFonts(fonts, pdfenv, "request")
            /\ response' = ExportResponse(pdf_result')
            /\ UNCHANGED contract
    /\ UNCHANGED <<kb_file, KNOWLEDGE_BASE, contract_fields, served, worker, today, request,
                   service, pdfenv, ai_result>>

\* a handler that does not look at the upload
Upload_Ignored(files) == [rejected |-> FALSE, text |-> "", extracted |-> FALSE]

\* the first half of review_contract_api (app.py:662-675): the uploaded file.
\* [rejected |-> TRUE, error] or [rejected |-> FALSE, text], and whether
\* extract_text_from_pdf was called
Upload(files) ==
    IF "contract_file" \in DOMAIN files /\ files["contract_file"].filename # ""
    THEN LET file == files["contract_file"]
             name == Lower(file.filename)
         IN  IF EndsWith(name, ".pdf")
             THEN LET result == extract_text_from_pdf(file)
                  IN  IF result.success
                      THEN [rejected |-> FALSE, text |-> result.text, extracted |-> TRUE]
                      ELSE [rejected |-> TRUE, extracted |-> TRUE,
                            error |-> "file read error: " \o result.error]
             ELSE IF EndsWith(name, ".txt")
             THEN [rejected |-> FALSE, text |-> file.text, extracted |-> FALSE]
             ELSE [rejected |-> TRUE, extracted |-> FALSE, error |-> "PDF or TXT only"]
    ELSE [rejected |-> FALSE, text |-> "", extracted |-> FALSE]

\* a response that reports the length of the prefix sent to the model
ReviewResponse_TruncatedLength(result, contract_text, now) ==
    IF result.success
    THEN Json(200, [success |-> TRUE, review |-> result.content,
                    text_length |-> Len(Take(contract_text, ReviewTextChars)),
                    reviewed_at |-> now])
    ELSE Json(500, [success |-> FALSE, error |-> result.error])

\* the answer of review_contract_api to the result of review_contract
ReviewResponse(result, contract_text, now) ==
    IF result.success
    THEN Json(200, [success |-> TRUE, review |-> result.content,
                    text_length |-> Len(contract_text), reviewed_at |-> now])
    ELSE Json(500, [success |-> FALSE, error |-> result.error])

\* POST /api/review-contract
ReviewContractApi ==
    /\ request.endpoint = "review"
    /\ response = NoResponse
    /\ LET up == Upload(request.files)
           steps == IF up.extracted THEN << [step |-> "extract_text_from_pdf"] >> ELSE <<>>
       IN  IF up.rejected
           THEN /\ response' = Json(400, [success |-> FALSE, error |-> up.error])
                /\ trace' = trace \o steps
                /\ UNCHANGED ai_result
           ELSE LET pasted == up.text = ""
                    contract_text ==
                        IF ~pasted THEN Str(up.text)
                        ELSE IF request.json THEN Get(request.data, "contract_text", Str(""))
                        ELSE Get(request.form, "contract_text", Str(""))
                    language ==
                        IF pasted /\ request.json THEN Get(request.data, "language", Str("arabic"))
                        ELSE Get(request.form, "language", Str("arabic"))
                    result == review_contract(contract_text.v, language, KNOWLEDGE_BASE, service)
                IN  IF NotText(contract_text)
                    THEN /\ response' = Crash("AttributeError")
                         /\ trace' = trace \o steps
                         /\ UNCHANGED ai_result
                    ELSE IF TooShort(contract_text, ReviewMinChars)
                    THEN /\ response' = Json(400, [success |-> FALSE,
                                                   error |-> "contract text required (50 characters)"])
                         /\ trace' = trace \o steps
                         /\ UNCHANGED ai_result
                    ELSE /\ ai_result' = result
                         /\ trace' = trace \o steps
                                     \o OpenAICalls(ReviewPrompt(contract_text.v, language),
                                                    ReviewSystemMessage(language, KNOWLEDGE_BASE),
                                                    ReviewMaxTokens, service)
                         /\ response' = ReviewResponse(result, contract_text.v, today)
    /\ UNCHANGED <<kb_file, KNOWLEDGE_BASE, contract_fields, fonts, served, worker, today, request,
                   service, pdfenv, contract, pdf_result>>

----------------------------------------------------------------------------
(* The inputs a request is drawn from *)

\* how much whitespace may surround a sampled text, and how far past a
\* length threshold the sampled texts go
MaxPad == 1
MaxExtra == 1

Days == {"2026-01-01", "2026-01-02"}

Override(d, k, v) == [x \in DOMAIN d \cup {k} |-> IF x = k THEN v ELSE d[x]]
Remove(d, k) == [x \in DOMAIN d \ {k} |-> d[x]]

\* conftest.py:28-73, sample_form_data
SampleForm ==
    ("contract_number" :> Str("EMP-2025-001")) @@ ("contract_type" :> Str("~~~~ ~~~~~ / Fixed-term")) @@
    ("contract_date" :> Str("2025-01-15")) @@ ("start_date" :> Str("2025-02-01")) @@
    ("end_date" :> Str("2026-01-31")) @@ ("contract_location" :> Str("~~~~~~")) @@
    ("employer_name" :> Str("~~~~ ~~~~~~~ ~~~~~~~~")) @@ ("employer_type" :> Str("~~~~ ~~~ ~~~~~~~ ~~~~~~")) @@
    ("employer_hrsd_id" :> Str("12345")) @@ ("employer_unified_no" :> Str("700012345")) @@
    ("employer_address" :> Str("~~~~~~, ~~ ~~~~~~")) @@ ("employer_phone" :> Str("0112345678")) @@
    ("employer_email" :> Str("hr@techco.sa")) @@ ("employer_rep_name" :> Str("~~~~ ~~~~")) @@
    ("employer_rep_id" :> Str("1010101010")) @@ ("employer_rep_capacity" :> Str("~~~~ ~~~~~~~ ~~~~~~~")) @@
    ("employee_name" :> Str("~~~ ~~~~~~~")) @@ ("employee_nationality" :> Str("~~~~~")) @@
    ("employee_id_type" :> Str("~~~~ ~~~~~ / National ID")) @@ ("employee_id_number" :> Str("1098765432")) @@
    ("employee_passport" :> Str("")) @@ ("employee_gender" :> Str("~~~ / Male")) @@
    ("employee_marital_status" :> Str("~~~~~ / Married")) @@ ("employee_birth_date" :> Str("1995-06-15")) @@
    ("employee_address" :> Str("~~~~~~, ~~ ~~~~~~")) @@ ("employee_phone" :> Str("0551234567")) @@
    ("employee_email" :> Str("saad@email.com")) @@ ("job_title" :> Str("~~~~~ ~~~~~~~")) @@
    ("work_location" :> Str("~~~~~~")) @@ ("duration_months" :> Str("12")) @@
    ("auto_renewal" :> Str("~~~ / Yes")) @@ ("probation_days" :> Str("90")) @@
    ("working_days" :> Str("5")) @@ ("working_hours" :> Str("48")) @@ ("rest_days" :> Str("2")) @@
    ("vacation_days" :> Str("21")) @@ ("basic_salary" :> Str("10000")) @@
    ("housing_allowance" :> Str("2500")) @@ ("transport_allowance" :> Str("1000")) @@
    ("other_allowances" :> Str("500")) @@ ("gosi_deduction" :> Str("9.75")) @@
    ("bank_name" :> Str("~~~~~ ~~~~~~ ~~~~~~~")) @@ ("iban" :> Str("SA1234567890123456789012"))

AmountFields == {"basic_salary", "housing_allowance", "transport_allowance", "other_allowances"}

\* the values one field is overridden with: empty, non-numeric, Arabic and
\* numeric text, JSON null and JSON numbers
FieldValues == {Str(""), Str("abc"), Str("~~~"), Str("12"), Str("7"), Null, Num(0), Num(1200)}

\* a submission that differs from a base submission in one field
OverrideForms ==
    { Override(b, f, v) : b \in {EmptyDict, SampleForm}, f \in FieldIds, v \in FieldValues }
    \cup { Remove(SampleForm, f) : f \in FieldIds }

\* the rate of a wage submission: absent, or one of these values
RateValues == {Str("9.75"), Str("0"), Str(" 5 "), Str(""), Null, Num(0), Num(500)}

\* every combination of absent / zero / the fixture's amount for the four
\* amounts, with every rate
WageForms ==
    { [k \in {a \in AmountFields : c[a] # "absent"} |->
          IF c[k] = "zero" THEN Str("0") ELSE SampleForm[k]] @@ r :
      c \in [AmountFields -> {"absent", "zero", "sample"}],
      r \in {EmptyDict} \cup { ("gosi_deduction" :> v) : v \in RateValues } }

Submissions == {EmptyDict, SampleForm} \cup OverrideForms \cup WageForms

\* texts whose length is around the threshold n, with and without padding
Texts(n) ==
    { Repeat(" ", l) \o Repeat("x", k) \o Repeat(" ", r) :
        k \in {0} \cup ((n - 1)..(n + MaxExtra)), l \in 0..MaxPad, r \in 0..MaxPad }

Languages == {EmptyDict} \cup { ("language" :> Str(l)) : l \in {"arabic", "english", "french"} }

TextField(name, texts) ==
    {EmptyDict, (name :> Null)} \cup { (name :> Str(t)) : t \in texts }

\* n short entries: c1, c2, ... cn
ShortEntries(c, n) == [i \in 1..n |-> c \o IntToStr(i)]

\* n entries of the letter c, each a hundred times `hundreds` characters long
LongEntries(c, n, hundreds) == [i \in 1..n |-> Repeat(Repeat(c, 100), hundreds)]

\* no knowledge base, a small one, one with more entries than a prompt
\* takes, and one whose entries are longer than a prompt takes
KnowledgeBases ==
    { NoKnowledgeBase,
      [sections |-> << "s1", "s2", "s3", "s4", "s5", "s6" >>,
       contract_template |-> [sections |-> << "t1", "t2" >>],
       key_labor_law_articles |-> << "a1" >>,
       executive_regulations |-> << "r1", "r2" >>],
      [sections |-> ShortEntries("s", ExplainKbEntries + MaxExtra),
       contract_template |-> [sections |-> ShortEntries("t", ReviewTemplateSections + MaxExtra)],
       key_labor_law_articles |-> ShortEntries("a", ReviewRegulations + MaxExtra),
       executive_regulations |-> ShortEntries("r", ReviewRegulations + MaxExtra)],
      [sections |-> LongEntries("s", 2, ExplainKbChars \div 100 - 10),
       contract_template |-> [sections |-> LongEntries("t", 3, ReviewTemplateChars \div 100 - 20)],
       key_labor_law_articles |-> LongEntries("a", 2, ReviewArticleChars \div 100 - 10),
       executive_regulations |-> LongEntries("r", 2, ReviewRegulationChars \div 100 - 5)] }

\* what the import may find at data/knowledge_base.json
KbFiles ==
    { [state |-> st] : st \in {"missing", "unreadable", "malformed"} }
    \cup { [state |-> "ok", json |-> kb] : kb \in KnowledgeBases }

NoKbFile == [state |-> "missing"]

Services ==
    { [outcome |-> "ok", content |-> "answer"] }
    \cup { [outcome |-> "error", message |-> m] : m \in {"Request timed out.", "Incorrect API key"} }

DefaultService == [outcome |-> "ok", content |-> "answer"]
DefaultPdfEnv == [font |-> TRUE, build |-> TRUE]

GenerateRequests ==
    { [endpoint |-> "generate", data |-> d] :
        d \in {EmptyDict} \cup { ("form_data" :> f) : f \in Submissions } }

FieldsRequests == { [endpoint |-> "fields"] }

\* a JSON body may also carry a number where the text is expected
JsonTextField(name, texts) == TextField(name, texts) \cup { (name :> Num(1200)) }

ExplainRequests ==
    { [endpoint |-> "explain", data |-> t @@ l] :
        t \in JsonTextField("clause_text", Texts(ExplainMinChars)), l \in Languages }

\* a text longer than what review_contract embeds: "x" up to the limit, "z" after it
LongText == Repeat(Repeat("x", 100), ReviewTextChars \div 100) \o Repeat("z", MaxExtra)

\* texts whose length is around the limit of the review prompt
LongTexts == { Take(LongText, k) : k \in (ReviewTextChars - 1)..(ReviewTextChars + MaxExtra) }

Files ==
    { [filename |-> n, text |-> t, corrupt |-> c] :
        n \in {"", "contract.pdf", "CONTRACT.PDF", "contract.txt", "contract.docx"},
        t \in {"", Repeat("x", ReviewMinChars - 1), " " \o Repeat("x", ReviewMinChars) \o " "},
        c \in BOOLEAN }

ReviewRequests ==
    { [endpoint |-> "review", json |-> TRUE, files |-> EmptyDict, form |-> EmptyDict,
       data |-> t @@ l] :
        t \in JsonTextField("contract_text", Texts(ReviewMinChars) \cup LongTexts),
        l \in Languages }
    \cup
    { [endpoint |-> "review", json |-> FALSE, files |-> f, data |-> EmptyDict, form |-> t @@ l] :
        f \in {EmptyDict} \cup { ("contract_file" :> x) : x \in Files },
        t \in TextField("contract_text", {Repeat("x", ReviewMinChars - 1), Repeat("y", ReviewMinChars)}),
        l \in Languages }

\* what a client may send as contract_data: nothing, what generate returned,
\* or anything else
ContractDatas ==
    { EmptyDict, Null, Str("junk"),
      generate_contract_data(SampleForm, "2026-01-01").doc,
      [title_ar |-> Ar("t"), sections |-> <<>>],
      [sections |-> << [title_en |-> "no number"] >>] }

ExportRequests ==
    { [endpoint |-> "export", data |-> c @@ f] :
        c \in {EmptyDict} \cup { ("contract_data" :> x) : x \in ContractDatas },
        f \in {EmptyDict} \cup { ("form_data" :> x) :
                 x \in {EmptyDict, SampleForm, Override(SampleForm, "basic_salary", Str("abc")),
                        Override(EmptyDict, "employee_name", Str("<b"))} } }

----------------------------------------------------------------------------
(* One request per behaviour: Init draws the process state and the request, *)
(* the endpoint's action handles it.                                        *)

Idle == [pc |-> "idle", used |-> NoFonts]

Init ==
    /\ today \in Days
    /\ request \in FieldsRequests \cup GenerateRequests \cup ExplainRequests
                    \cup ReviewRequests \cup ExportRequests
    /\ kb_file \in IF request.endpoint \in {"explain", "review"} THEN KbFiles ELSE {NoKbFile}
    /\ KNOWLEDGE_BASE = load_knowledge_base(kb_file)
    /\ contract_fields = CONTRACT_FIELDS
    /\ fonts = NoFonts
    /\ served = <<>>
    /\ worker = Idle
    /\ service \in IF request.endpoint \in {"explain", "review"} THEN Services ELSE {DefaultService}
    /\ pdfenv \in IF request.endpoint = "export"
                  THEN [font : BOOLEAN, build : BOOLEAN] ELSE {DefaultPdfEnv}
    /\ response = NoResponse
    /\ contract = NotCalled
    /\ ai_result = NotCalled
    /\ pdf_result = NotCalled
    /\ trace = <<>>

Next ==
    \/ GetContractFields
    \/ GenerateContractApi
    \/ ExplainClauseApi
    \/ ExportPdf
    \/ ReviewContractApi

Spec == Init /\ [][Next]_vars

----------------------------------------------------------------------------
(* A process that answers several requests one after the other, while     *)
(* another thread renders an export request.                               *)

\* how many requests the process answers before the one observed
MaxRequests == 2

\* one request of every kind, failing ones included
ServerRequests ==
    FieldsRequests
    \cup { [endpoint |-> "generate", data |-> ("form_data" :> f)] :
             f \in {EmptyDict, Override(EmptyDict, "basic_salary", Str("abc"))} }
    \cup { [endpoint |-> "explain", data |-> ("clause_text" :> Str(Repeat("x", ExplainMinChars)))] }
    \cup { [endpoint |-> "export", data |-> d] :
             d \in {("form_data" :> SampleForm), ("contract_data" :> Str("junk"))} }
    \cup { [endpoint |-> "review", json |-> TRUE, files |-> EmptyDict, form |-> EmptyDict,
            data |-> ("contract_text" :> Str(""))] }

ServerInit == Init /\ request \in ServerRequests /\ today = "2026-01-01"

\* the response has been sent and the next request arrives
NextRequest ==
    /\ response # NoResponse
    /\ Len(served) < MaxRequests
    /\ served' = Append(served, [endpoint |-> request.endpoint, status |-> response.status])
    /\ request' \in ServerRequests
    /\ response' = NoResponse
    /\ contract' = NotCalled
    /\ ai_result' = NotCalled
    /\ pdf_result' = NotCalled
    /\ trace' = <<>>
    /\ UNCHANGED <<kb_file, KNOWLEDGE_BASE, contract_fields, fonts, worker, today, service, pdfenv>>

\* the other thread's create_pdf_document registers its fonts (app.py:450-451)
WorkerRegisterFonts ==
    /\ worker.pc = "idle"
    /\ pdfenv.font
    /\ fonts' = RegisterFonts(fonts, pdfenv, "worker")
    /\ worker' = [pc |-> "registered", used |-> NoFonts]
    /\ UNCHANGED <<kb_file, KNOWLEDGE_BASE, contract_fields, served, today, request, service,
                   pdfenv, response, contract, ai_result, pdf_result, trace>>

\* the other thread's doc.build(story) lays the paragraphs out with the fonts
\* the registry holds by then (app.py:603)
WorkerBuild ==
    /\ worker.pc = "registered"
    /\ worker' = [pc |-> "built", used |-> fonts]
    /\ UNCHANGED <<kb_file, KNOWLEDGE_BASE, contract_fields, fonts, served, today, request,
                   service, pdfenv, response, contract, ai_result, pdf_result, trace>>

ServerNext ==
    \/ Next
    \/ NextRequest
    \/ WorkerRegisterFonts
    \/ WorkerBuild

Server == ServerInit /\ [][ServerNext]_vars

----------------------------------------------------------------------------
(* Properties *)

Handled == response # NoResponse
Built == contract.kind = "doc"

\* the submission the builder was given by the request
Submission == Get(request.data, "form_data", EmptyDict)

RECURSIVE CountOpenAI(_)
CountOpenAI(steps) ==
    IF Len(steps) = 0 THEN 0
    ELSE (IF steps[1].step = "openai" THEN 1 ELSE 0) + CountOpenAI(Tail(steps))

\* the document has sixteen sections numbered 1..16 in order and every row
\* of every row-table section has a 'val' key
SixteenSections(doc) ==
    /\ Len(doc.sections) = 16
    /\ \A i \in 1..Len(doc.sections) :
          /\ doc.sections[i].num = i
          /\ "rows" \in DOMAIN doc.sections[i] =>
                \A j \in 1..Len(doc.sections[i].rows) : "val" \in DOMAIN doc.sections[i].rows[j]

\* C1: for every submission, generate_contract_data returns a document with
\* exactly sixteen sections numbered 1..16 in order, every row carrying 'val'.
C1_SixteenSectionsForEverySubmission ==
    (request.endpoint = "generate" /\ Handled) =>
        (Built /\ SixteenSections(contract.doc))

\* C2: the exposed calculations satisfy total = basic + housing + transport +
\* other, gosi = total * rate / 100 and net = total - gosi, an absent amount
\* counting as 0 and a submitted number as itself; 10000/2500/1000/500 at
\* 9.75 gives total 14000.00, deduction 1365.00 and net 12635.00.
C2_WageArithmetic ==
    Built =>
        LET c == contract.doc.calculations
            f == Submission
            key == [basic_salary |-> "basic", housing_allowance |-> "housing",
                    transport_allowance |-> "transport", other_allowances |-> "other"]
        IN  /\ c.total = c.basic + c.housing + c.transport + c.other
            /\ c.gosi.r \in 0..9999
            /\ c.gosi.q * 10000 + c.gosi.r = c.total * c.gosi_rate
            /\ c.net.r \in 0..9999
            /\ (c.net.r + c.gosi.r) % 10000 = 0
            /\ c.net.q + c.gosi.q + (c.net.r + c.gosi.r) \div 10000 = c.total
            /\ \A k \in AmountFields :
                  /\ k \notin DOMAIN f => c[key[k]] = 0
                  /\ (k \in DOMAIN f /\ f[k] = Str("0")) => c[key[k]] = 0
                  /\ (k \in DOMAIN f /\ f[k].t = "num") => c[key[k]] = f[k].v
            /\ ( /\ AmountFields \cup {"gosi_deduction"} \subseteq DOMAIN f
                 /\ f["basic_salary"] = Str("10000") /\ f["housing_allowance"] = Str("2500")
                 /\ f["transport_allowance"] = Str("1000") /\ f["other_allowances"] = Str("500")
                 /\ f["gosi_deduction"] = Str("9.75") )
               => ( /\ c.total = 1400000
                    /\ c.gosi = [q |-> 136500, r |-> 0]
                    /\ c.net = [q |-> 1263500, r |-> 0] )

\* the fixture's wage was built: total 14000.00 with all four amounts and
\* the rate 9.75 submitted
C2_Witness ==
    /\ Built
    /\ AmountFields \cup {"gosi_deduction"} \subseteq DOMAIN Submission
    /\ Submission["other_allowances"] = Str("500")
    /\ Submission["gosi_deduction"] = Str("9.75")
    /\ contract.doc.calculations.total = 1400000

\* C3: generate_contract_data never fails: every submission, non-numeric
\* text in the numeric fields included, gets a document (and the endpoint
\* its 200 answer).
C3_BuilderNeverFails ==
    (request.endpoint = "generate" /\ Handled) =>
        (contract.kind # "raise" /\ response.status = 200)

\* C4: a submitted rate that parses to a number r (zero included, text or
\* JSON number) is the rate used; 9.75 is used when the rate is absent.
C4_RateAsSubmitted ==
    Built =>
        LET f == Submission
            rate == contract.doc.calculations.gosi_rate
        IN  /\ "gosi_deduction" \notin DOMAIN f => rate = DefaultGosiRate
            /\ ("gosi_deduction" \in DOMAIN f /\ PyFloat(f["gosi_deduction"]).ok)
                  => rate = PyFloat(f["gosi_deduction"]).v

\* C5: in every built document the 'val' of every row is a string.
C5_EveryValIsAString ==
    Built =>
        \A i \in 1..Len(contract.doc.sections) :
            "rows" \in DOMAIN contract.doc.sections[i] =>
                \A j \in 1..Len(contract.doc.sections[i].rows) :
                    IsStr(contract.doc.sections[i].rows[j].val)

\* the text an explain request or a pasted-text (JSON) review request carries,
\* and the threshold of its endpoint
TextKey == IF request.endpoint = "explain" THEN "clause_text" ELSE "contract_text"
MinChars == IF request.endpoint = "explain" THEN ExplainMinChars ELSE ReviewMinChars
CarriesText ==
    /\ request.endpoint = "explain" \/ (request.endpoint = "review" /\ request.json)
    /\ TextKey \in DOMAIN request.data
    /\ IsStr(request.data[TextKey])
SentText == request.data[TextKey].v

\* the text reached the assistant: one call, whose prompt embeds the text
Forwarded(text) ==
    /\ CountOpenAI(trace) = 1
    /\ \E i \in 1..Len(trace) : trace[i].step = "openai" /\ trace[i].prompt.text = text

\* C6 as stated: a text shorter than the threshold (10 for explain, 50 for
\* review) is rejected with 400 and a text of exactly the threshold length
\* is accepted and forwarded.
C6_ThresholdOnLength ==
    (CarriesText /\ Handled) =>
        /\ Len(SentText) < MinChars => response.status = 400
        /\ Len(SentText) = MinChars => (response.status # 400 /\ Forwarded(SentText))

\* C6 amended: the threshold applies to the text with its surrounding
\* whitespace trimmed: rejected with 400 exactly when the trimmed length is
\* below the threshold, otherwise forwarded untrimmed (the review prompt
\* embedding what it embeds of any text, its first ReviewTextChars characters).
C6_ThresholdOnTrimmedLength ==
    (CarriesText /\ Handled) =>
        /\ response.status = 400 <=> Len(Strip(SentText)) < MinChars
        /\ Len(Strip(SentText)) = MinChars => Forwarded(SentText)
        /\ response.status # 400 =>
              Forwarded(IF request.endpoint = "review"
                        THEN SubSeq(SentText, 1, Min(ReviewTextChars, Len(SentText)))
                        ELSE SentText)

\* a padded text whose trimmed length is exactly the threshold was accepted
C6_Witness ==
    /\ CarriesText /\ Handled
    /\ Len(Strip(SentText)) = MinChars
    /\ Len(SentText) > MinChars
    /\ response.status # 400
    /\ Forwarded(SentText)

\* C7: when the completion service fails, explain_clause / review_contract
\* return {success: false, error: the failure's message} and the endpoint
\* answers 500 with success false and that message.
C7_ServiceFailureSurfaces ==
    (Handled /\ service.outcome = "error" /\ CountOpenAI(trace) > 0) =>
        /\ ai_result = [success |-> FALSE, error |-> service.message]
        /\ response = Json(500, [success |-> FALSE, error |-> service.message])

\* a review whose service call failed was answered
C7_Witness ==
    /\ request.endpoint = "review" /\ Handled
    /\ service.outcome = "error"
    /\ CountOpenAI(trace) = 1
    /\ response.status = 500

\* C8: an explain or review request makes at most one call to the completion
\* service, none when it is rejected with 400 (validation, unsupported
\* extension, extraction failure) and exactly one otherwise, also when the
\* call fails (a handler that crashes before the call makes none).
C8_AtMostOneServiceCall ==
    (request.endpoint \in {"explain", "review"} /\ Handled) =>
        /\ CountOpenAI(trace) <= 1
        /\ response.status = 400 => CountOpenAI(trace) = 0
        /\ (response.status # 400 /\ "crashed" \notin DOMAIN response) => CountOpenAI(trace) = 1
        /\ (request.endpoint = "review" /\ Upload(request.files).rejected)
              => (response.status = 400 /\ CountOpenAI(trace) = 0)

\* an explain request whose single call failed: one call, no second attempt
C8_Witness ==
    /\ request.endpoint = "explain" /\ Handled
    /\ service.outcome = "error"
    /\ response.status = 500
    /\ CountOpenAI(trace) = 1

\* the contract_data create_pdf_document was called with, if it was called
Rendered == { trace[i].contract_data : i \in { j \in 1..Len(trace) : trace[j].step = "create_pdf_document" } }

\* C9: create_pdf_document never raises: an exception during font
\* resolution, layout or building is returned as {success: false, error}
\* and the export endpoint answers 500 with success false, without crashing.
C9_RendererNeverRaises ==
    (request.endpoint = "export" /\ Handled /\ Rendered # {}) =>
        /\ "raised" \notin DOMAIN pdf_result
        /\ \A cd \in Rendered :
              RenderException(cd, pdfenv) # "" =>
                 /\ pdf_result.success = FALSE
                 /\ Len(pdf_result.error) > 0
                 /\ response.status = 500
                 /\ "crashed" \notin DOMAIN response
                 /\ response.body = [success |-> FALSE, error |-> pdf_result.error]

\* a contract_data whose section lacks 'num' was rendered with a working font
C9_Witness ==
    /\ request.endpoint = "export" /\ Handled
    /\ pdfenv.font /\ pdfenv.build
    /\ \E cd \in Rendered : RenderException(cd, pdfenv) = "KeyError"
    /\ response.status = 500

\* two values that differ as texts and as numbers, so that no parsing of a
\* numeric field can identify them
C10Values == {Str("12"), Str("7")}

\* C10: for every field id of the schema, a submission that differs from
\* the built one only in the value of that field builds a different document.
C10_EveryFieldChangesTheDocument ==
    (request.endpoint = "generate" /\ Built) =>
        \A f \in FieldIds : \A v \in C10Values :
            (f \in DOMAIN Submission /\ Submission[f] \in C10Values /\ Submission[f] # v)
                => generate_contract_data(Override(Submission, f, v), today) # contract

\* C11: the schema is read-only: whatever requests the process answered
\* before (successful or failed), the module-level list is the ten sections
\* it was defined with and GET /api/contract-fields returns exactly them.
C11_SchemaIsReadOnly ==
    /\ contract_fields = CONTRACT_FIELDS
    /\ Len(contract_fields) = 10
    /\ (request.endpoint = "fields" /\ Handled) =>
          response = Json(200, [success |-> TRUE, fields |-> CONTRACT_FIELDS])

\* the schema was served after a failed request and an export
C11_Witness ==
    /\ request.endpoint = "fields" /\ Handled
    /\ Len(served) = MaxRequests
    /\ \E i \in 1..Len(served) : served[i].status = 500
    /\ \E i \in 1..Len(served) : served[i].endpoint = "export" /\ served[i].status = 200

\* C12: requests share no mutable state: no handler writes process-wide
\* state that another request reads, so the rendering of a request only
\* ever works with the font objects that request registered itself.
C12_NoSharedMutableState ==
    worker.pc = "built" => worker.used = "worker"

\* C13: generate_contract_data is a function of the submission alone: a
\* call made on any other day returns the document this call returned.
C13_BuilderIsPure ==
    (request.endpoint = "generate" /\ Built) =>
        \A d \in Days : generate_contract_data(Submission, d) = contract

\* the calls to the completion service in the handler's trace
OpenAISteps == { i \in 1..Len(trace) : trace[i].step = "openai" }

\* C14: when the knowledge base file is missing, unreadable or malformed the
\* loader returns no knowledge base, and an accepted explain or review
\* request still calls the service once, with its prompt built and the
\* reference context of the system message empty.
C14_MissingKnowledgeBaseIsOmitted ==
    kb_file.state # "ok" =>
        /\ KNOWLEDGE_BASE = NoKnowledgeBase
        /\ (request.endpoint \in {"explain", "review"} /\ Handled
              /\ response.status \in {200, 500} /\ "crashed" \notin DOMAIN response) =>
              /\ Cardinality(OpenAISteps) = 1
              /\ \A i \in OpenAISteps :
                    /\ trace[i].prompt.lang_name \in {"Arabic", "English"}
                    /\ Len(trace[i].prompt.text) >= MinChars
                    /\ request.endpoint = "explain" => trace[i].system_message.kb_context = ""
                    /\ request.endpoint = "review" => trace[i].system_message.kb_sections = ""

\* a review was answered 200 by a process whose knowledge base file is malformed
C14_Witness ==
    /\ kb_file.state = "malformed"
    /\ request.endpoint = "review" /\ Handled
    /\ response.status = 200
    /\ Cardinality(OpenAISteps) = 1

\* C15: the review endpoint answers 400 whenever the upload is rejected
\* (unsupported extension, failed extraction), whatever text is pasted, and
\* answers 500 only when the assistant's review itself failed.
C15_ReviewStatusCodes ==
    (request.endpoint = "review" /\ Handled) =>
        /\ Upload(request.files).rejected => response.status = 400
        /\ response.status = 500 =>
              (Cardinality(OpenAISteps) = 1 /\ ai_result # NotCalled /\ ~ai_result.success)

\* C16: for every submission, with the fonts in place, building the
\* document and rendering it succeeds: the file begins with the PDF magic
\* header and the export endpoint returns it with status 200.
C16_RoundTrip ==
    (request.endpoint = "export" /\ Handled /\ Falsy(Given) /\ pdfenv = DefaultPdfEnv) =>
        /\ Built
        /\ pdf_result # NotCalled
        /\ "success" \in DOMAIN pdf_result
        /\ pdf_result.success
        /\ pdf_result.file.magic = PdfMagic
        /\ response.status = 200
        /\ response.file = pdf_result.file

\* the export rendered a document and create_pdf_document returned its file
RenderedOk ==
    /\ request.endpoint = "export" /\ Handled
    /\ pdf_result # NotCalled
    /\ "success" \in DOMAIN pdf_result
    /\ pdf_result.success

\* the document that was rendered, its sections and the story laid out
TheDocument == CHOOSE cd \in Rendered : TRUE
TheSections == Get(TheDocument, "sections", <<>>)
TheStory == pdf_result.file.story

IsHeader(b) == b.kind = "header"
IsRow(b) == b.kind = "row"

\* the positions of the header bands in the story
HeaderAt == { j \in 1..Len(TheStory) : IsHeader(TheStory[j]) }

\* the position of the i-th header band
HeaderOf(i) == CHOOSE j \in HeaderAt : Cardinality({ h \in HeaderAt : h <= j }) = i

\* the positions of the blocks emitted for the i-th section after its header
\* band (the spacers that separate the sections apart)
BlocksOf(i) ==
    { j \in 1..Len(TheStory) :
        /\ j > HeaderOf(i)
        /\ \A h \in HeaderAt : h > HeaderOf(i) => j < h
        /\ TheStory[j].kind \notin {"spacer", "disclaimer"} }

\* C17: the header bands come in the order of the document's sections, no
\* row, note, clause, sub-clause or footer block comes before the first
\* header band, and the disclaimer is the last block of the story and
\* occurs nowhere else, also for a document without sections.
C17_DisclaimerLast ==
    RenderedOk =>
        /\ TheStory[Len(TheStory)].kind = "disclaimer"
        /\ \A j \in 1..(Len(TheStory) - 1) : TheStory[j].kind # "disclaimer"
        /\ Cardinality(HeaderAt) = Len(TheSections)
        /\ \A i \in 1..Len(TheSections) : TheStory[HeaderOf(i)].num = TheSections[i].num
        /\ \A j \in 1..Len(TheStory) :
              TheStory[j].kind \in {"row", "note", "clause", "subclause", "footer"}
                  => \E h \in HeaderAt : h < j

\* a document without sections was rendered
C17_Witness ==
    /\ RenderedOk
    /\ IsDict(TheDocument) /\ "sections" \in DOMAIN TheDocument
    /\ TheSections = <<>>
    /\ response.status = 200

\* C18: after its header band a row-table section gets one row block per
\* row and no clause block, a single-clause section exactly one clause
\* block, and a sub-clause-list section one sub-clause block per sub-clause
\* and no other block (none at all when the list is empty).
C18_BlocksOfTheVariant ==
    (RenderedOk /\ Built) =>
        \A i \in 1..Len(TheSections) :
            LET section == TheSections[i]
                kinds == [k \in {"row", "clause", "subclause"} |->
                            Cardinality({ j \in BlocksOf(i) : TheStory[j].kind = k })]
            IN  /\ "rows" \in DOMAIN section =>
                      /\ kinds["row"] = Len(section.rows)
                      /\ kinds["clause"] = 0 /\ kinds["subclause"] = 0
                /\ "text_en" \in DOMAIN section =>
                      Cardinality(BlocksOf(i)) = 1 /\ kinds["clause"] = 1
                /\ "multi_clauses" \in DOMAIN section =>
                      /\ kinds["subclause"] = Len(section.multi_clauses)
                      /\ Cardinality(BlocksOf(i)) = Len(section.multi_clauses)

\* the rows of the rendered document, in order, and their blocks in the story
TheRows == Flatten([i \in 1..Len(TheSections) |-> Get(TheSections[i], "rows", <<>>)])
TheRowBlocks == SelectSeq(TheStory, IsRow)

\* C19: the value of a row is reshaped if and only if it holds a character
\* of the Arabic block; a value without one is laid out as supplied.
C19_ReshapeIffArabic ==
    RenderedOk =>
        /\ Len(TheRowBlocks) = Len(TheRows)
        /\ \A k \in 1..Len(TheRows) :
              LET supplied == PyStr(Get(TheRows[k], "val", Str("")))
              IN  IF \E c \in 1..Len(supplied) : Char(supplied, c) = ArabicLetter
                  THEN /\ TheRowBlocks[k].val = get_display(Reshaped(supplied))
                       /\ TheRowBlocks[k].val # supplied
                  ELSE TheRowBlocks[k].val = supplied

\* a document with an Arabic value and with an IBAN was rendered
C19_Witness ==
    /\ RenderedOk
    /\ \E k \in 1..Len(TheRows) : TheRows[k].val = Str("SA1234567890123456789012")
    /\ \E k \in 1..Len(TheRows) :
          /\ IsStr(TheRows[k].val)
          /\ \E c \in 1..Len(TheRows[k].val.v) : Char(TheRows[k].val.v, c) = ArabicLetter
          /\ TheRowBlocks[k].val # TheRows[k].val.v

\* C20: the prompt of review_contract embeds the first ReviewTextChars
\* (8000) characters of the contract text, the whole text when it is not
\* longer, and nothing beyond them.
C20_ReviewEmbedsPrefix ==
    (request.endpoint = "review" /\ Handled) =>
        \A i \in OpenAISteps :
            /\ Len(trace[i].prompt.text) <= ReviewTextChars
            /\ CarriesText =>
                  /\ Len(SentText) <= ReviewTextChars => trace[i].prompt.text = SentText
                  /\ Len(SentText) > ReviewTextChars =>
                        /\ Len(trace[i].prompt.text) = ReviewTextChars
                        /\ trace[i].prompt.text = SubSeq(SentText, 1, ReviewTextChars)
                        /\ Char(trace[i].prompt.text, ReviewTextChars) = "x"

\* a text longer than the limit was reviewed
C20_Witness ==
    /\ request.endpoint = "review" /\ Handled /\ CarriesText
    /\ Len(SentText) > ReviewTextChars
    /\ response.status = 200
    /\ \E i \in OpenAISteps : Len(trace[i].prompt.text) = ReviewTextChars

\* sub occurs in s
Contains(s, sub) ==
    \E i \in 1..(Len(s) - Len(sub) + 1) : SubSeq(s, i, i + Len(sub) - 1) = sub

\* the fields the clauses of sections 5-8 interpolate, with the section that
\* carries them and the default the schema declares (app.py:84-106)
ClauseFields ==
    { [id |-> "duration_months", num |-> 5, default |-> "12"],
      [id |-> "probation_days", num |-> 6, default |-> "90"],
      [id |-> "working_days", num |-> 7, default |-> "5"],
      [id |-> "working_hours", num |-> 7, default |-> "48"],
      [id |-> "rest_days", num |-> 7, default |-> "2"],
      [id |-> "vacation_days", num |-> 8, default |-> "21"] }

\* C21: the clause of sections 5-8 carries, in its English and in its Arabic
\* text, the submitted value of each of its fields, and the schema default
\* when the field is absent or empty.
C21_ClausesInterpolateWithDefaults ==
    (request.endpoint = "generate" /\ Built) =>
        \A c \in ClauseFields :
            LET section == contract.doc.sections[c.num]
                absent == c.id \notin DOMAIN Submission
                empty == ~absent /\ Submission[c.id] = Str("")
                value == IF absent \/ empty THEN c.default ELSE PyStr(Submission[c.id])
            IN  /\ Contains(section.text_en, "(" \o value \o ")")
                /\ Contains(section.text_ar, value)

\* submissions to compare the built document with
OtherSubmissions ==
    {EmptyDict, SampleForm, ("gosi_deduction" :> Str("0")), ("job_title" :> Str("abc"))}

\* the labels and notes of a row
Label(row) ==
    [ar |-> row.ar, en |-> row.en,
     note_ar |-> Get(row, "note_ar", ""), note_en |-> Get(row, "note_en", "")]

\* the labels of the rows of a section; WithRate tells whether the label of
\* the deduction row of section 9 (its sixth row) is among them
RowLabels(section, WithRate) ==
    IF "rows" \notin DOMAIN section THEN <<>>
    ELSE [j \in 1..Len(section.rows) |->
            IF section.num = 9 /\ j = 6 /\ ~WithRate THEN "rate" ELSE Label(section.rows[j])]

\* the part of a document the claim calls boilerplate
Boilerplate(doc, WithRate) ==
    [obligations |-> SubSeq(doc.sections, 11, 16),
     titles |-> [i \in 1..Len(doc.sections) |->
                   <<doc.sections[i].title_ar, doc.sections[i].title_en>>],
     labels |-> [i \in 1..Len(doc.sections) |-> RowLabels(doc.sections[i], WithRate)],
     constants |-> <<doc.sections[4].rows[2], doc.sections[4].rows[4]>>,
     title |-> <<doc.title_ar, doc.title_en>>]

\* C22 as stated: sections 11-16, all section titles, all row labels and
\* notes and the constant rows of section 4 are the same in the documents
\* built from any two submissions.
C22_BoilerplateIsConstant ==
    (request.endpoint = "generate" /\ Built) =>
        \A o \in OtherSubmissions :
            Boilerplate(generate_contract_data(o, today).doc, TRUE) = Boilerplate(contract.doc, TRUE)

\* C22 amended: the same, except for the label of the deduction row of
\* section 9, which names the rate the submission asked for.
C22_BoilerplateButTheRateLabel ==
    (request.endpoint = "generate" /\ Built) =>
        /\ \A o \in OtherSubmissions :
              Boilerplate(generate_contract_data(o, today).doc, FALSE)
                  = Boilerplate(contract.doc, FALSE)
        /\ contract.doc.sections[9].rows[6].en
              = "GOSI Deduction (" \o FloatRepr(contract.doc.calculations.gosi_rate) \o "%)"
        /\ contract.doc.sections[4].rows[2].en = "Work Domain"
        /\ contract.doc.sections[4].rows[4].en = "Work Type"

\* a populated submission with a rate of its own was built
C22_Witness ==
    /\ request.endpoint = "generate" /\ Built
    /\ "employee_name" \in DOMAIN Submission
    /\ "gosi_deduction" \in DOMAIN Submission
    /\ contract.doc.calculations.gosi_rate = 1200
    /\ contract.doc.sections[9].rows[6].en = "GOSI Deduction (12.0%)"

\* the 'language' entry of the request, where the handler reads it
LanguageSource ==
    IF request.endpoint = "review" /\ ~request.json THEN request.form ELSE request.data

LanguageAbsent == "language" \notin DOMAIN LanguageSource

\* C23: every call to the completion service instructs one of the two
\* languages, in the prompt and in the system message alike: Arabic when
\* the request says 'arabic' or says nothing, English when it says 'english'.
C23_AnswerLanguage ==
    \A i \in OpenAISteps :
        /\ trace[i].prompt.lang_name \in {"Arabic", "English"}
        /\ trace[i].system_message.lang_name = trace[i].prompt.lang_name
        /\ LanguageAbsent => trace[i].prompt.lang_name = "Arabic"
        /\ (~LanguageAbsent /\ LanguageSource.language = Str("arabic"))
               => trace[i].prompt.lang_name = "Arabic"
        /\ (~LanguageAbsent /\ LanguageSource.language = Str("english"))
               => trace[i].prompt.lang_name = "English"

\* an explanation and a review were asked for in English and answered
C23_Witness ==
    /\ request.endpoint \in {"explain", "review"}
    /\ ~LanguageAbsent /\ LanguageSource.language = Str("english")
    /\ OpenAISteps # {}
    /\ response.status = 200
    /\ \A i \in OpenAISteps : trace[i].prompt.lang_name = "English"

\* the export request carries no contract_data, or an empty one
NoContractData ==
    \/ "contract_data" \notin DOMAIN request.data
    \/ request.data.contract_data \in {EmptyDict, Null, Str("")}

\* C24: without a (non-empty) contract_data the export endpoint renders the
\* document built from form_data, and what it returns is what rendering the
\* contract generated from that form_data (on any day) returns; with a
\* contract_data it renders that value as given and builds nothing.
C24_ExportBuildsOrRendersGiven ==
    (request.endpoint = "export" /\ Handled) =>
        IF NoContractData
        THEN /\ contract # NotCalled
             /\ Built => /\ Rendered = {contract.doc}
                         /\ contract.doc.sections = Sections(Submission,
                                contract.doc.calculations.basic, contract.doc.calculations.housing,
                                contract.doc.calculations.transport, contract.doc.calculations.other,
                                contract.doc.calculations.total, contract.doc.calculations.gosi_rate,
                                contract.doc.calculations.gosi, contract.doc.calculations.net)
                         /\ \A d \in Days :
                                create_pdf_document(generate_contract_data(Submission, d).doc, pdfenv)
                                    = pdf_result
             /\ ~Built => Rendered = {} /\ pdf_result = NotCalled
        ELSE /\ contract = NotCalled
             /\ Rendered = {request.data.contract_data}
             /\ pdf_result = create_pdf_document(request.data.contract_data, pdfenv)

\* a submission was exported with an empty contract_data beside it
C24_Witness ==
    /\ request.endpoint = "export" /\ Handled
    /\ "contract_data" \in DOMAIN request.data /\ NoContractData
    /\ Submission = SampleForm
    /\ Built /\ response.status = 200
    /\ Rendered = {contract.doc}

\* the text a row of section 9 displays, and that text without the currency
WageText(j) == contract.doc.sections[9].rows[j].val.v
WageAmount(j) == SubSeq(WageText(j), 1, Len(WageText(j)) - Len(SAR))

RECURSIVE WithoutCommas(_)
WithoutCommas(t) ==
    IF Len(t) = 0 THEN ""
    ELSE (IF Char(t, 1) = "," THEN "" ELSE Char(t, 1)) \o WithoutCommas(SubSeq(t, 2, Len(t)))

\* t reads d,ddd,ddd.dd: a point before the last two digits, and a comma
\* exactly before every group of three digits of the integer part
TwoDecimalsAndSeparators(t) ==
    /\ Len(t) >= 4
    /\ Char(t, Len(t) - 2) = "."
    /\ IsDigit(Char(t, Len(t) - 1)) /\ IsDigit(Char(t, Len(t)))
    /\ Char(t, 1) # ","
    /\ \A i \in 1..(Len(t) - 3) :
          IF (Len(t) - 3 - i + 1) % 4 = 0 THEN Char(t, i) = "," ELSE IsDigit(Char(t, i))

\* the amount (in hundredths) the text t denotes
Denoted(t) == ParseFloat(WithoutCommas(t)).v

\* s hundredths is the fraction x to the nearest hundredth
Nearest(s, x) ==
    (s - x.q) * 10000 - x.r >= -5000 /\ (s - x.q) * 10000 - x.r <= 5000

\* C25: the seven rows of section 9 are basic, housing, transport, other,
\* total, the deduction with a minus sign before it, and net; each displays
\* the raw entry of 'calculations' with two decimals and thousands
\* separators, and the raw entries are plain numbers.
C25_WageRowsDisplayCalculations ==
    (request.endpoint = "generate" /\ Built) =>
        /\ Len(contract.doc.sections[9].rows) = 7
        /\ [j \in 1..5 |-> contract.doc.sections[9].rows[j].en]
              = << "Basic Wage", "Housing Allowance", "Transport Allowance",
                   "Other Allowances", "Total Wage" >>
        /\ SubSeq(contract.doc.sections[9].rows[6].en, 1, 14) = "GOSI Deduction"
        /\ contract.doc.sections[9].rows[7].en = "Net Wage"
        /\ \A j \in 1..7 : EndsWith(WageText(j), SAR)
        /\ \A j \in {1, 2, 3, 4, 5, 7} : TwoDecimalsAndSeparators(WageAmount(j))
        /\ Denoted(WageAmount(1)) = contract.doc.calculations.basic
        /\ Denoted(WageAmount(2)) = contract.doc.calculations.housing
        /\ Denoted(WageAmount(3)) = contract.doc.calculations.transport
        /\ Denoted(WageAmount(4)) = contract.doc.calculations.other
        /\ Denoted(WageAmount(5)) = contract.doc.calculations.total
        /\ Char(WageAmount(6), 1) = "-"
        /\ TwoDecimalsAndSeparators(SubSeq(WageAmount(6), 2, Len(WageAmount(6))))
        /\ Nearest(Denoted(SubSeq(WageAmount(6), 2, Len(WageAmount(6)))),
                   contract.doc.calculations.gosi)
        /\ Nearest(Denoted(WageAmount(7)), contract.doc.calculations.net)
        /\ \A k \in {"basic", "housing", "transport", "other", "total", "gosi_rate"} :
              contract.doc.calculations[k] \in Int
        /\ \A k \in {"gosi", "net"} :
              contract.doc.calculations[k].q \in Int /\ contract.doc.calculations[k].r \in 0..9999

\* the fixture's wages were built: amounts above a thousand, and a
\* deduction that is rounded for display
C25_Witness ==
    /\ request.endpoint = "generate" /\ Built
    /\ WageText(5) = "14,000.00" \o SAR
    /\ contract.doc.calculations.total = 1400000
    /\ contract.doc.calculations.gosi_rate = 975
    /\ WageText(6) = "-1,365.00" \o SAR
    /\ WageText(7) = "12,635.00" \o SAR

\* a row is flagged as highlighted; a row carries a note
Flagged(row) == "highlight" \in DOMAIN row /\ row.highlight = TRUE
Noted(row) ==
    \/ "note_en" \in DOMAIN row /\ row.note_en # ""
    \/ "note_ar" \in DOMAIN row /\ row.note_ar # ""

\* the rows of a built document that are flagged, as <<section, English label>>
FlaggedRows(doc) ==
    UNION { { <<doc.sections[i].num, doc.sections[i].rows[j].en>> :
                j \in { r \in 1..Len(doc.sections[i].rows) : Flagged(doc.sections[i].rows[r]) } } :
            i \in { s \in 1..Len(doc.sections) : "rows" \in DOMAIN doc.sections[s] } }

\* the positions of the row blocks in the story, and of the k-th of them
RowAt == { j \in 1..Len(TheStory) : IsRow(TheStory[j]) }
RowPos(k) == CHOOSE j \in RowAt : Cardinality({ h \in RowAt : h <= j }) = k

\* C26: the flagged rows of a built document are exactly 'Total Wage' and
\* 'Net Wage' of section 9; in a rendering a row block has the highlight
\* background exactly when its row is flagged (white otherwise), the block
\* right after a row block is a note band exactly when the row carries a
\* note, and no note band stands anywhere else.
C26_HighlightsAndNotes ==
    /\ Built => FlaggedRows(contract.doc) = { <<9, "Total Wage">>, <<9, "Net Wage">> }
    /\ RenderedOk =>
          /\ Len(TheRowBlocks) = Len(TheRows)
          /\ HighlightColor # "white"
          /\ \A k \in 1..Len(TheRows) :
                /\ TheRowBlocks[k].background
                      = IF Flagged(TheRows[k]) THEN HighlightColor ELSE "white"
                /\ Noted(TheRows[k]) <=> TheStory[RowPos(k) + 1].kind = "note"
          /\ \A j \in 1..Len(TheStory) :
                TheStory[j].kind = "note" => j > 1 /\ IsRow(TheStory[j - 1])

\* a document with flagged rows and rows with notes was rendered
C26_Witness ==
    /\ RenderedOk /\ response.status = 200
    /\ \E k \in 1..Len(TheRows) :
          Flagged(TheRows[k]) /\ TheRowBlocks[k].background = HighlightColor
    /\ \E k \in 1..Len(TheRows) :
          Noted(TheRows[k]) /\ TheStory[RowPos(k) + 1].kind = "note"
    /\ \E k \in 1..Len(TheRows) :
          ~Flagged(TheRows[k]) /\ ~Noted(TheRows[k]) /\ TheStory[RowPos(k) + 1].kind = "row"

\* the first n entries of a list, and a text cut to n characters
FirstEntries(entries, n) == [i \in 1..(IF Len(entries) < n THEN Len(entries) ELSE n) |-> entries[i]]
CutTo(s, n) == IF Len(s) <= n THEN s ELSE SubSeq(s, 1, n)

ArticlesHeader == "Key Labor Law Articles:"
RegulationsHeader == "Executive Regulations (sample):"

\* the three parts of the review context, each cut to its own budget
TemplatePart ==
    CutTo(Dumps(FirstEntries(KNOWLEDGE_BASE.contract_template.sections, 10)), 4000)
ArticlesPart == CutTo(Dumps(KNOWLEDGE_BASE.key_labor_law_articles), 3000)
RegulationsPart == CutTo(Dumps(FirstEntries(KNOWLEDGE_BASE.executive_regulations, 20)), 2000)

\* C27: the reference context of a prompt is bounded: an explanation embeds
\* the first 5 entries cut to 3000 characters; a review embeds the first 10
\* template sections cut to 4000 characters, then the key articles cut to
\* 3000 and then the first 20 regulations cut to 2000, each cut on its own.
C27_ContextIsBounded ==
    \A i \in OpenAISteps :
        IF KNOWLEDGE_BASE = NoKnowledgeBase
        THEN /\ request.endpoint = "explain" => trace[i].system_message.kb_context = ""
             /\ request.endpoint = "review" => trace[i].system_message.kb_sections = ""
        ELSE /\ request.endpoint = "explain" =>
                  /\ trace[i].system_message.kb_context
                        = "Knowledge Base Reference:"
                          \o CutTo(Dumps(FirstEntries(KNOWLEDGE_BASE.sections, 5)), 3000)
                  /\ Len(trace[i].system_message.kb_context)
                        <= Len("Knowledge Base Reference:") + 3000
             /\ request.endpoint = "review" =>
                  /\ trace[i].system_message.kb_sections
                        = TemplatePart \o ArticlesHeader \o ArticlesPart
                          \o RegulationsHeader \o RegulationsPart
                  /\ Len(trace[i].system_message.kb_sections)
                        <= 4000 + Len(ArticlesHeader) + 3000 + Len(RegulationsHeader) + 2000

\* a review was made with a knowledge base all of whose parts exceed their
\* budgets: the context holds 4000, 3000 and 2000 characters of them
C27_Witness ==
    /\ request.endpoint = "review" /\ response.status = 200
    /\ KNOWLEDGE_BASE # NoKnowledgeBase
    /\ Len(Dumps(KNOWLEDGE_BASE.contract_template.sections)) > 4000
    /\ Len(Dumps(KNOWLEDGE_BASE.key_labor_law_articles)) > 3000
    /\ Len(Dumps(KNOWLEDGE_BASE.executive_regulations)) > 2000
    /\ \E i \in OpenAISteps :
          /\ Len(trace[i].system_message.kb_sections)
                = 4000 + Len(ArticlesHeader) + 3000 + Len(RegulationsHeader) + 2000
          /\ Char(trace[i].system_message.kb_sections, 4000) = "t"
          /\ Char(trace[i].system_message.kb_sections, 4001) = "K"
          /\ Char(trace[i].system_message.kb_sections, 4000 + Len(ArticlesHeader) + 3000) = "a"
          /\ Char(trace[i].system_message.kb_sections, 4001 + Len(ArticlesHeader) + 3000) = "E"

\* the file of the request, when one was uploaded
TheFile == request.files["contract_file"]
Uploaded == "contract_file" \in DOMAIN request.files /\ TheFile.filename # ""

\* the text the handler received from the upload: the content of a .txt
\* file, the stripped page texts of a .pdf file, nothing otherwise
ReceivedFromFile ==
    IF ~Uploaded THEN ""
    ELSE IF TheFile.filename = "contract.txt" THEN TheFile.text
    ELSE IF TheFile.filename \in {"contract.pdf", "CONTRACT.PDF"} /\ ~TheFile.corrupt
    THEN Strip(TheFile.text \o "\n")
    ELSE ""

\* the pasted text of the request
Pasted ==
    IF request.json THEN Get(request.data, "contract_text", Str(""))
    ELSE Get(request.form, "contract_text", Str(""))

\* the full contract text the handler received
Received == IF ReceivedFromFile # "" THEN ReceivedFromFile ELSE Pasted.v

\* C28: a successful review response reports as text_length the length of
\* the whole text received, pasted or from the file, whatever was cut off
\* for the prompt and whatever whitespace surrounds it.
C28_TextLengthOfWholeText ==
    (request.endpoint = "review" /\ Handled /\ response.status = 200) =>
        response.body.text_length = Len(Received)

\* a review of a text longer than the prompt takes, and of a padded upload
C28_Witness ==
    /\ request.endpoint = "review" /\ response.status = 200
    /\ \/ /\ request.json
          /\ Len(Received) > ReviewTextChars
          /\ response.body.text_length = ReviewTextChars + 1
          /\ \E i \in OpenAISteps : Len(trace[i].prompt.text) = ReviewTextChars
       \/ /\ Uploaded /\ TheFile.filename = "contract.txt"
          /\ Len(Strip(Received)) < Len(Received)
          /\ response.body.text_length = ReviewMinChars + 2

\* the calls of the builder and of the renderer the handler made
BuildSteps == { i \in 1..Len(trace) : trace[i].step = "generate_contract_data" }
RenderSteps == { i \in 1..Len(trace) : trace[i].step = "create_pdf_document" }

FormLanguage ==
    IF "language" \notin DOMAIN request.form \/ request.form.language = Str("arabic")
    THEN "Arabic" ELSE "English"

\* C30: when the uploaded .pdf or .txt file yields text, the review is made
\* of that text, in the language of the form field 'language' (Arabic when
\* absent), and the pasted text plays no part, not even when the file's
\* text is too short; the pasted text is reviewed only when no file was
\* uploaded or the upload yielded no text.
C30_UploadTakesPrecedence ==
    (request.endpoint = "review" /\ Handled) =>
        /\ ReceivedFromFile # "" =>
              /\ \A i \in OpenAISteps :
                    /\ trace[i].prompt.text = CutTo(ReceivedFromFile, 8000)
                    /\ trace[i].prompt.lang_name = FormLanguage
                    /\ trace[i].system_message.lang_name = FormLanguage
              /\ Len(Strip(ReceivedFromFile)) < 50 => response.status = 400 /\ OpenAISteps = {}
              /\ Len(Strip(ReceivedFromFile)) >= 50 => OpenAISteps # {}
        /\ ReceivedFromFile = "" =>
              \A i \in OpenAISteps :
                  /\ IsStr(Pasted) /\ trace[i].prompt.text = CutTo(Pasted.v, 8000)
                  /\ ~Uploaded \/ TheFile.text = ""

\* a .txt file was uploaded beside a pasted text long enough to be
\* reviewed, with English asked for in the form: the file's text was reviewed
C30_Witness ==
    /\ request.endpoint = "review" /\ response.status = 200
    /\ Uploaded /\ TheFile.filename = "contract.txt"
    /\ Pasted = Str(Repeat("y", 50))
    /\ Get(request.form, "language", Str("arabic")) = Str("english")
    /\ \E i \in OpenAISteps :
          /\ trace[i].prompt.text = " " \o Repeat("x", 50) \o " "
          /\ trace[i].prompt.lang_name = "English"

====
